---------------------------- MODULE Spec2Model ----------------------------
(***************************************************************************)
(* A model of the SINISA scrapper (SinisaScrapper.py): document discovery, *)
(* staging, archive extraction, tabular normalisation and the partition of *)
(* the long-format records by year.                                        *)
(*                                                                         *)
(* Text is a sequence of one-character strings.  A path (and the path of a *)
(* URL) is a sequence of segments, each segment a text.  The content of a  *)
(* file is a record tagged by "kind".  An accented letter is written as    *)
(* the letter followed by its mark: "a'" is a-acute, "a~" a-tilde, "c,"    *)
(* c-cedilla.                                                              *)
(***************************************************************************)
EXTENDS Integers, Sequences, FiniteSets, TLC

VARIABLES
  fs,            \* the filesystem: [dirs: set of paths, files: path -> content]
  pc,            \* position of the running call
  arg,           \* the inputs of the call (constructor arguments, archive, pages, table)
  ret,           \* what the call returned
  docs,          \* extract_database: docs, the filtered links
  docIdx,        \* extract_database: index of the next doc of the first loop
  tabular_files, \* extract_database: tabular_files, <<path, module>> pairs
  fileIdx,       \* extract_database: index of the next file of the second loop
  long_frames,   \* extract_database: long_frames, one record list per kept file
  hist           \* history: requests issued, units skipped, stages entered

vars == <<fs, pc, arg, ret, docs, docIdx, tabular_files, fileIdx, long_frames, hist>>

(***************************************************************************)
(* Text helpers                                                            *)
(***************************************************************************)
None == [kind |-> "None"]

Last(s) == s[Len(s)]

Front(s) == SubSeq(s, 1, Len(s) - 1)

IsPrefix(p, s) == Len(p) <= Len(s) /\ SubSeq(s, 1, Len(p)) = p

EndsWith(s, e) == Len(e) <= Len(s) /\ SubSeq(s, Len(s) - Len(e) + 1, Len(s)) = e

Contains(h, p) == \E i \in 0..(Len(h) - Len(p)) : SubSeq(h, i + 1, i + Len(p)) = p

SeqToSet(s) == {s[i] : i \in 1..Len(s)}

RECURSIVE Flatten(_)
Flatten(ss) == IF ss = <<>> THEN <<>> ELSE Head(ss) \o Flatten(Tail(ss))

LowerSeq ==
  <<"a", "b", "c", "d", "e", "f", "g", "h", "i", "j", "k", "l", "m", "n", "o",
    "p", "q", "r", "s", "t", "u", "v", "w", "x", "y", "z", "a'", "a~", "c,",
    "e'", "o'">>

UpperSeq ==
  <<"A", "B", "C", "D", "E", "F", "G", "H", "I", "J", "K", "L", "M", "N", "O",
    "P", "Q", "R", "S", "T", "U", "V", "W", "X", "Y", "Z", "A'", "A~", "C,",
    "E'", "O'">>

\* str.lower(), character by character
LowerChar(c) ==
  IF \E i \in 1..Len(UpperSeq) : UpperSeq[i] = c
    THEN LowerSeq[CHOOSE i \in 1..Len(UpperSeq) : UpperSeq[i] = c]
    ELSE c

\* str.upper(), character by character
UpperChar(c) ==
  IF \E i \in 1..Len(LowerSeq) : LowerSeq[i] = c
    THEN UpperSeq[CHOOSE i \in 1..Len(LowerSeq) : LowerSeq[i] = c]
    ELSE c

Lower(s) == [i \in 1..Len(s) |-> LowerChar(s[i])]

Upper(s) == [i \in 1..Len(s) |-> UpperChar(s[i])]

\* NFD decomposition with the combining marks (category Mn) removed
StripAccent(c) ==
  CASE c = "a'" -> "a" [] c = "a~" -> "a" [] c = "c," -> "c" [] c = "e'" -> "e"
    [] c = "o'" -> "o" [] c = "A'" -> "A" [] c = "A~" -> "A" [] c = "C," -> "C"
    [] c = "E'" -> "E" [] c = "O'" -> "O"
    [] OTHER -> c

Digits == {"0", "1", "2", "3", "4", "5", "6", "7", "8", "9"}

LowerLetters == {"a", "b", "c", "d", "e", "f", "g", "h", "i", "j", "k", "l", "m",
                 "n", "o", "p", "q", "r", "s", "t", "u", "v", "w", "x", "y", "z"}

IsSpace(c) == c \in {" ", "\t", "\n"}

RECURSIVE LStrip(_)
LStrip(s) == IF s # <<>> /\ IsSpace(Head(s)) THEN LStrip(Tail(s)) ELSE s

RECURSIVE RStrip(_)
RStrip(s) == IF s # <<>> /\ IsSpace(Last(s)) THEN RStrip(Front(s)) ELSE s

\* str.strip()
Strip(s) == RStrip(LStrip(s))

\* re.sub(r"[^a-z0-9]+", sep, s): every maximal run of other characters becomes sep
RECURSIVE SubNonAlnum(_, _, _)
SubNonAlnum(s, sep, inRun) ==
  IF s = <<>> THEN <<>>
  ELSE IF Head(s) \in LowerLetters \cup Digits
       THEN <<Head(s)>> \o SubNonAlnum(Tail(s), sep, FALSE)
       ELSE (IF inRun THEN <<>> ELSE <<sep>>) \o SubNonAlnum(Tail(s), sep, TRUE)

RECURSIVE StripChar(_, _)
StripChar(s, c) ==
  IF s # <<>> /\ Head(s) = c THEN StripChar(Tail(s), c)
  ELSE IF s # <<>> /\ Last(s) = c THEN StripChar(Front(s), c)
  ELSE s

(***************************************************************************)
(* Paths and the filesystem                                                *)
(***************************************************************************)
s_dot == <<".">>

s_dotdot == <<".", ".">>

\* str.rfind("."): the index of the last ".", 0 when there is none
RFindDot(name) ==
  LET idx == {i \in 1..Len(name) : name[i] = "."}
  IN  IF idx = {} THEN 0 ELSE CHOOSE i \in idx : \A j \in idx : j <= i

\* PurePath.suffix
Suffix(name) ==
  LET i == RFindDot(name)
  IN  IF 1 < i /\ i < Len(name) THEN SubSeq(name, i, Len(name)) ELSE <<>>

\* PurePath.stem
Stem(name) ==
  LET i == RFindDot(name)
  IN  IF 1 < i /\ i < Len(name) THEN SubSeq(name, 1, i - 1) ELSE name

\* the kernel's view of an absolute path: "." and empty segments vanish and ".."
\* steps to the parent (the root is its own parent)
RECURSIVE NormSegs(_, _)
NormSegs(segs, acc) ==
  IF segs = <<>> THEN acc
  ELSE LET h == Head(segs)
       IN  IF h = s_dot \/ h = <<>> THEN NormSegs(Tail(segs), acc)
           ELSE IF h = s_dotdot
                THEN NormSegs(Tail(segs), IF acc = <<>> THEN acc ELSE Front(acc))
                ELSE NormSegs(Tail(segs), Append(acc, h))

Normpath(p) == NormSegs(p, <<>>)

Resolve_NoNormalisation(p) == p

\* Path.resolve() of an absolute path in a tree without symbolic links
Resolve(p) == Normpath(p)

IsWithinDir_Always(base_dir, target) == TRUE

\* _is_within_dir: target.relative_to(base_dir) does not raise
IsWithinDir(base_dir, target) == IsPrefix(base_dir, target)

EmptyFs == [dirs |-> {}, files |-> <<>>]

IsFile(f, p) == Normpath(p) \in DOMAIN f.files

IsDir(f, p) == Normpath(p) \in f.dirs

Exists(f, p) == IsFile(f, p) \/ IsDir(f, p)

Parents(p) == {SubSeq(p, 1, n) : n \in 1..(Len(p) - 1)}

\* Path.mkdir(parents=True, exist_ok=True); FileExistsError when a file is in the way
MkdirOk(f, p) == \A q \in Parents(Normpath(p)) \cup {Normpath(p)} : q \notin DOMAIN f.files

Mkdir(f, p) == [f EXCEPT !.dirs = @ \cup Parents(Normpath(p)) \cup {Normpath(p)}]

\* open(path, "wb") and the write of the whole body
WriteFile(f, p, data) ==
  LET q == Normpath(p)
  IN  [f EXCEPT !.files = (q :> data) @@ @]

\* shutil.rmtree(path, ignore_errors=True)
RmTree(f, p) ==
  LET q == Normpath(p)
      keep == {r \in DOMAIN f.files : ~IsPrefix(q, r)}
  IN  [dirs |-> {r \in f.dirs : ~IsPrefix(q, r)},
       files |-> [r \in keep |-> f.files[r]]]

(***************************************************************************)
(* Names and contents used by the bounded inputs                           *)
(***************************************************************************)
s_csv == <<".", "c", "s", "v">>

s_xlsx == <<".", "x", "l", "s", "x">>

s_xls == <<".", "x", "l", "s">>

s_ods == <<".", "o", "d", "s">>

s_zip == <<".", "z", "i", "p">>

s_pdf == <<".", "p", "d", "f">>

\* DOWNLOADABLE_EXTENSIONS
DOWNLOADABLE_EXTENSIONS == {s_zip, s_xlsx, s_xls, s_csv, s_ods, s_pdf}

\* PLANILHA_SOURCE_EXTENSIONS
PLANILHA_SOURCE_EXTENSIONS == {s_zip, s_csv, s_xlsx, s_xls, s_ods}

\* PLANILHA_FINAL_EXTENSIONS
PLANILHA_FINAL_EXTENSIONS == {s_csv, s_xlsx, s_xls, s_ods}

\* Path(self.DOWNLOADED_FILES_PATH) / "sinisa", resolved
BaseDir == << <<"d", "l">>, <<"s", "i", "n", "i", "s", "a">> >>

RawDir == Append(BaseDir, <<"r", "a", "w">>)

ExtractedDir == Append(BaseDir, <<"e", "x", "t", "r", "a", "c", "t", "e", "d">>)

\* the bytes of a file that is no readable container or table (a truncated body)
Corrupt == [kind |-> "corrupt"]

ZipOf(entries) == [kind |-> "zip", entries |-> entries]

\* an archive member: ZipInfo.filename (absolute or relative, as segments),
\* ZipInfo.is_dir() and the member's bytes
Member(abs, segs, isdir, data) == [abs |-> abs, segs |-> segs, isdir |-> isdir, data |-> data]

(***************************************************************************)
(* _extract_zip                                                            *)
(***************************************************************************)
\* one pass of the loop over zf.infolist(); acc = [fs, files, raised]
RECURSIVE ExtractMembers(_, _, _, _)
ExtractMembers(members, destination, allowed_exts, acc) ==
  IF members = <<>> \/ acc.raised THEN acc
  ELSE
    LET member == Head(members)
        rest == Tail(members)
        suffix == IF member.segs = <<>> THEN <<>> ELSE Lower(Suffix(Last(member.segs)))
        destination_root == Resolve(destination)
        target == Resolve(IF member.abs THEN member.segs ELSE destination \o member.segs)
    IN  IF member.isdir
          THEN ExtractMembers(rest, destination, allowed_exts, acc)
        ELSE IF allowed_exts # {} /\ suffix \notin allowed_exts
          THEN ExtractMembers(rest, destination, allowed_exts, acc)
        ELSE IF ~IsWithinDir(destination_root, target)
          THEN ExtractMembers(rest, destination, allowed_exts, acc)
        ELSE IF target = <<>> \/ ~MkdirOk(acc.fs, Front(target)) \/ IsDir(acc.fs, target)
          \* target.parent.mkdir or target.open raises (a file where a directory
          \* is needed, or a directory where the file is to be written)
          THEN [acc EXCEPT !.raised = TRUE]
        ELSE ExtractMembers(rest, destination, allowed_exts,
               [fs |-> WriteFile(Mkdir(acc.fs, Front(target)), target, member.data),
                files |-> Append(acc.files, target),
                raised |-> FALSE])

\* _extract_zip(zip_path, extracted_dir, allowed_exts) on filesystem f with
\* self._overwrite = overwrite: [fs, files, raised]
ExtractZip(f, zip_path, extracted_dir, allowed_exts, overwrite) ==
  LET destination == Append(extracted_dir, Stem(Last(zip_path)))
      f1 == IF Exists(f, destination) /\ overwrite THEN RmTree(f, destination) ELSE f
  IN  IF ~MkdirOk(f1, destination)
        THEN [fs |-> f1, files |-> <<>>, raised |-> TRUE]
      ELSE
        LET f2 == Mkdir(f1, destination)
            content == IF IsFile(f2, zip_path) THEN f2.files[Normpath(zip_path)] ELSE Corrupt
        IN  IF content.kind # "zip"
              \* zipfile.ZipFile(zip_path) raises BadZipFile
              THEN [fs |-> f2, files |-> <<>>, raised |-> TRUE]
            ELSE ExtractMembers(content.entries, destination, allowed_exts,
                                [fs |-> f2, files |-> <<>>, raised |-> FALSE])

(***************************************************************************)
(* Bounded inputs of _extract_zip                                          *)
(***************************************************************************)
MaxMembers == 2

s_t_csv == <<"t", ".", "c", "s", "v">>

s_e_csv == <<"e", ".", "c", "s", "v">>

s_r_CSV == <<"r", ".", "C", "S", "V">>

s_x_csv == <<"x", ".", "c", "s", "v">>

s_n_txt == <<"n", ".", "t", "x", "t">>

s_sub == <<"s", "u", "b">>

s_etc == <<"e", "t", "c">>

s_passwd == <<"p", "a", "s", "s", "w", "d">>

s_a == <<"a">>

s_a_zip == <<"a", ".", "z", "i", "p">>

s_old_csv == <<"o", "l", "d", ".", "c", "s", "v">>

Blob(n) == [kind |-> "blob", id |-> n]

\* member names: plain, nested, a directory, a disallowed extension, the spec's
\* "../../etc/passwd", a traversal with an allowed extension, an absolute name,
\* a name that leaves the destination and comes back, a name below another member
MemberUniverse ==
  { Member(FALSE, <<s_t_csv>>, FALSE, Blob(1)),
    Member(FALSE, <<s_sub, s_t_csv>>, FALSE, Blob(2)),
    Member(FALSE, <<s_sub>>, TRUE, Blob(0)),
    Member(FALSE, <<s_n_txt>>, FALSE, Blob(3)),
    Member(FALSE, <<s_dotdot, s_dotdot, s_etc, s_passwd>>, FALSE, Blob(4)),
    Member(FALSE, <<s_dotdot, s_dotdot, s_e_csv>>, FALSE, Blob(5)),
    Member(TRUE, <<s_etc, s_e_csv>>, FALSE, Blob(6)),
    Member(FALSE, <<s_dotdot, s_a, s_r_CSV>>, FALSE, Blob(7)),
    Member(FALSE, <<s_t_csv, s_x_csv>>, FALSE, Blob(8)) }

SeqsUpTo(S, n) == UNION {[1..k -> S] : k \in 0..n}

ZipPath == Append(RawDir, s_a_zip)

ZipDestination == Append(ExtractedDir, s_a)

\* the staging area as _prepare_dirs leaves it, with the archive downloaded and,
\* when stale, a destination left by an earlier extraction of the same stem
ZipFs0(a) ==
  LET f0 == WriteFile(Mkdir(Mkdir(EmptyFs, RawDir), ExtractedDir), ZipPath, ZipOf(a.archive))
  IN  IF a.stale
        THEN WriteFile(Mkdir(f0, ZipDestination), Append(ZipDestination, s_old_csv), Blob(9))
        ELSE f0

ZipInit ==
  /\ arg \in [archive : SeqsUpTo(MemberUniverse, MaxMembers),
              allowed_exts : {{}, PLANILHA_FINAL_EXTENSIONS},
              overwrite : BOOLEAN,
              stale : BOOLEAN]
  /\ fs = ZipFs0(arg)
  /\ pc = "call"
  /\ ret = None
  /\ docs = <<>>
  /\ docIdx = 0
  /\ tabular_files = <<>>
  /\ fileIdx = 0
  /\ long_frames = <<>>
  /\ hist = <<>>

\* one call of _extract_zip
ZipCall ==
  /\ pc = "call"
  /\ LET r == ExtractZip(fs, ZipPath, ExtractedDir, arg.allowed_exts, arg.overwrite)
     IN  /\ fs' = r.fs
         /\ ret' = [files |-> r.files, raised |-> r.raised]
  /\ pc' = "return"
  /\ UNCHANGED <<arg, docs, docIdx, tabular_files, fileIdx, long_frames, hist>>

ZipNext == ZipCall

SpecZip == ZipInit /\ [][ZipNext]_vars

(***************************************************************************)
(* C1                                                                      *)
(***************************************************************************)
\* where the kernel puts a member written under its name below the destination
MemberPlace(m) == Normpath(IF m.abs THEN m.segs ELSE ZipDestination \o m.segs)

MemberEscapes(m) == ~IsPrefix(ZipDestination, MemberPlace(m))

MemberWanted(m, allowed) ==
  /\ ~m.isdir
  /\ allowed = {} \/ Lower(Suffix(Last(m.segs))) \in allowed

\* the files the call created or rewrote
ZipWritten ==
  {p \in DOMAIN fs.files :
     p \notin DOMAIN ZipFs0(arg).files \/ fs.files[p] # ZipFs0(arg).files[p]}

\* C1: _extract_zip creates or writes no file whose resolved path lies outside
\* the destination directory; a member whose name escapes it is written nowhere
\* and is not in the returned list, and the members after it are still
\* extracted: the list returned is, in archive order, the place of every
\* wanted member that stays inside.
C1_NoEscape ==
  pc = "return" =>
    /\ \A p \in ZipWritten : IsPrefix(ZipDestination, p)
    /\ \A i \in 1..Len(ret.files) : IsPrefix(ZipDestination, Normpath(ret.files[i]))
    /\ \A i \in 1..Len(arg.archive) :
         MemberEscapes(arg.archive[i]) =>
           \A p \in ZipWritten : fs.files[p] # arg.archive[i].data
    /\ ~ret.raised =>
         LET kept == SelectSeq(arg.archive,
                       LAMBDA m : MemberWanted(m, arg.allowed_exts) /\ ~MemberEscapes(m))
         IN  ret.files = [i \in 1..Len(kept) |-> MemberPlace(kept[i])]

\* an escaping member with an allowed extension was dropped and the member
\* after it was extracted
C1_Witness ==
  /\ pc = "return"
  /\ ~ret.raised
  /\ Len(arg.archive) = 2
  /\ MemberEscapes(arg.archive[1])
  /\ MemberWanted(arg.archive[1], arg.allowed_exts)
  /\ arg.allowed_exts # {}
  /\ Len(ret.files) = 1

(***************************************************************************)
(* Document classifier: _normalize_text, _infer_kind, _infer_module        *)
(***************************************************************************)
s_planilhas == <<"p", "l", "a", "n", "i", "l", "h", "a", "s">>

s_relatorios == <<"r", "e", "l", "a", "t", "o", "r", "i", "o", "s">>

s_glossarios == <<"g", "l", "o", "s", "s", "a", "r", "i", "o", "s">>

s_atestados == <<"a", "t", "e", "s", "t", "a", "d", "o", "s">>

s_all == <<"a", "l", "l">>

s_other == <<"o", "t", "h", "e", "r">>

s_gestao_municipal ==
  <<"g", "e", "s", "t", "a", "o", "_", "m", "u", "n", "i", "c", "i", "p",
    "a", "l">>

s_agua == <<"a", "g", "u", "a">>

s_esgoto == <<"e", "s", "g", "o", "t", "o">>

s_residuos == <<"r", "e", "s", "i", "d", "u", "o", "s">>

s_aguas_pluviais ==
  <<"a", "g", "u", "a", "s", "_", "p", "l", "u", "v", "i", "a", "i", "s">>

s_view == <<"v", "i", "e", "w">>

s_sinisa == <<"s", "i", "n", "i", "s", "a">>

s_resultados_sinisa ==
  <<"r", "e", "s", "u", "l", "t", "a", "d", "o", "s", "-", "s", "i", "n",
    "i", "s", "a">>

s_arquivos == <<"a", "r", "q", "u", "i", "v", "o", "s">>

\* KIND_PATTERNS, in the dictionary's order
KIND_PATTERNS ==
  << [kind |-> s_planilhas,
      patterns |-> <<<<"p", "l", "a", "n", "i", "l", "h", "a">>, <<"i", "n", "f", "o", "r", "m", "a", "c", "o", "e", "s", " ", "e", " ", "i", "n", "d", "i", "c", "a", "d", "o", "r", "e", "s">>, <<"i", "n", "d", "i", "c", "a", "d", "o", "r", "e", "s">>>>],
     [kind |-> s_relatorios, patterns |-> <<<<"r", "e", "l", "a", "t", "o", "r", "i", "o">>>>],
     [kind |-> s_glossarios, patterns |-> <<<<"g", "l", "o", "s", "s", "a", "r", "i", "o">>>>],
     [kind |-> s_atestados,
      patterns |-> <<<<"a", "t", "e", "s", "t", "a", "d", "o">>, <<"a", "d", "i", "m", "p", "l", "e", "n", "c", "i", "a">>, <<"r", "e", "g", "u", "l", "a", "r", "i", "d", "a", "d", "e">>>>] >>

\* MODULE_PATTERNS, in the dictionary's order
MODULE_PATTERNS ==
  << [module |-> s_gestao_municipal,
      patterns |-> <<<<"g", "e", "s", "t", "a", "o", " ", "m", "u", "n", "i", "c", "i", "p", "a", "l">>, <<"g", "e", "s", "t", "a", "o", "_", "m", "u", "n", "i", "c", "i", "p", "a", "l">>>>],
     [module |-> s_agua, patterns |-> <<<<"a", "g", "u", "a">>, <<"a", "b", "a", "s", "t", "e", "c", "i", "m", "e", "n", "t", "o">>>>],
     [module |-> s_esgoto, patterns |-> <<<<"e", "s", "g", "o", "t", "o">>, <<"e", "s", "g", "o", "t", "a", "m", "e", "n", "t", "o">>>>],
     [module |-> s_residuos, patterns |-> <<<<"r", "e", "s", "i", "d", "u", "o">>, <<"r", "e", "s", "i", "d", "u", "o", "s">>>>],
     [module |-> s_aguas_pluviais,
      patterns |-> <<<<"p", "l", "u", "v", "i", "a", "l">>, <<"a", "g", "u", "a", "s", " ", "p", "l", "u", "v", "i", "a", "i", "s">>, <<"a", "g", "u", "a", "s", "p", "l", "u", "v", "i", "a", "i", "s">>>>] >>

\* VALID_FILE_KINDS
VALID_FILE_KINDS == {s_planilhas, s_relatorios, s_glossarios, s_atestados, s_all}

\* VALID_MODULES
VALID_MODULES == {s_gestao_municipal, s_agua, s_esgoto, s_residuos, s_aguas_pluviais}

\* _normalize_text
NormalizeText(text) ==
  LET lowered == Strip(Lower(text))
      without_accents == [i \in 1..Len(lowered) |-> StripAccent(lowered[i])]
  IN  Strip(SubNonAlnum(without_accents, " ", FALSE))

\* Path(urlparse(url).path).name
UrlName(url) == IF url = <<>> THEN <<>> ELSE Last(url)

MinOf(S) == CHOOSE x \in S : \A y \in S : x <= y

Haystack(text, url) == NormalizeText(text \o <<" ">> \o UrlName(url))

InferKind_LastMatch(text, url) ==
  LET haystack == Haystack(text, url)
      hits == {i \in 1..Len(KIND_PATTERNS) :
                 \E j \in 1..Len(KIND_PATTERNS[i].patterns) :
                    Contains(haystack, KIND_PATTERNS[i].patterns[j])}
  IN  IF hits = {} THEN s_other
      ELSE KIND_PATTERNS[CHOOSE i \in hits : \A k \in hits : k <= i].kind

\* _infer_kind
InferKind(text, url) ==
  LET haystack == Haystack(text, url)
      hits == {i \in 1..Len(KIND_PATTERNS) :
                 \E j \in 1..Len(KIND_PATTERNS[i].patterns) :
                    Contains(haystack, KIND_PATTERNS[i].patterns[j])}
  IN  IF hits = {} THEN s_other ELSE KIND_PATTERNS[MinOf(hits)].kind

\* module = None, written as the empty text: every use of a module ("if module",
\* "doc.module not in modules" with modules drawn from VALID_MODULES) takes
\* None and "" alike
NoModule == <<>>

\* _infer_module
InferModule(text, url) ==
  LET haystack == Haystack(text, url)
      hits == {i \in 1..Len(MODULE_PATTERNS) :
                 \E j \in 1..Len(MODULE_PATTERNS[i].patterns) :
                    Contains(haystack, MODULE_PATTERNS[i].patterns[j])}
  IN  IF hits = {} THEN NoModule ELSE MODULE_PATTERNS[MinOf(hits)].module

(***************************************************************************)
(* Document crawler: _normalize_url, _extract_anchors, _extract_links,     *)
(* _resolve_results_urls, _list_documents                                  *)
(*                                                                         *)
(* A URL is the sequence of the segments of its path (one host).  An href  *)
(* is [form, segs]: "abs" an absolute URL, "rel" a path relative to the    *)
(* page, "frag" a "#..." target, "mailto", "javascript", "empty".  A page  *)
(* is the sequence of the (href, text) pairs _AnchorParser collects.       *)
(***************************************************************************)
Href(form, segs) == [form |-> form, segs |-> segs]

Anchor(href, text) == [href |-> href, text |-> text]

\* SINISA_HOME_URL
SINISA_HOME_URL == <<s_sinisa>>

\* DEFAULT_RESULTS_URL
DEFAULT_RESULTS_URL == <<s_sinisa, s_resultados_sinisa>>

\* _normalize_url: [ok, url]; ok = FALSE is None
NormalizeUrl(href, base_url) ==
  IF href.form \in {"empty", "frag", "mailto", "javascript"}
    THEN [ok |-> FALSE, url |-> <<>>]
  ELSE
    LET absolute == IF href.form = "abs" THEN href.segs
                    ELSE NormSegs(Front(base_url) \o href.segs, <<>>)
    IN  [ok |-> TRUE,
         url |-> IF Len(absolute) > 0 /\ Last(absolute) = s_view
                   THEN Front(absolute) ELSE absolute]

\* _extract_anchors: the <<url, text>> pairs with a usable href
RECURSIVE ExtractAnchors(_, _)
ExtractAnchors(page, base_url) ==
  IF page = <<>> THEN <<>>
  ELSE LET normalized == NormalizeUrl(Head(page).href, base_url)
       IN  (IF normalized.ok THEN << <<normalized.url, Head(page).text>> >> ELSE <<>>)
           \o ExtractAnchors(Tail(page), base_url)

\* _is_downloadable
IsDownloadable(url) ==
  url # <<>> /\ \E e \in DOWNLOADABLE_EXTENSIONS : EndsWith(Lower(Last(url)), e)

\* _is_planilha_source
IsPlanilhaSource(url) ==
  url # <<>> /\ \E e \in PLANILHA_SOURCE_EXTENSIONS : EndsWith(Lower(Last(url)), e)

\* SinisaDocumentLink
SinisaDocumentLink(url, text) ==
  [url |-> url, text |-> text, kind |-> InferKind(text, url), module |-> InferModule(text, url)]

\* the loop of _extract_links over the anchors, seen_urls carried along
RECURSIVE ExtractLinksLoop(_, _)
ExtractLinksLoop(anchors, seen_urls) ==
  IF anchors = <<>> THEN <<>>
  ELSE LET url == Head(anchors)[1]
           text == Head(anchors)[2]
       IN  IF url \in seen_urls \/ ~IsDownloadable(url)
             THEN ExtractLinksLoop(Tail(anchors), seen_urls)
             ELSE <<SinisaDocumentLink(url, text)>>
                  \o ExtractLinksLoop(Tail(anchors), seen_urls \cup {url})

\* _extract_links
ExtractLinks(page, base_url) == ExtractLinksLoop(ExtractAnchors(page, base_url), {})

\* the code point order of the characters page URLs are made of
AsciiOrder ==
  <<" ", "-", ".", "/", "0", "1", "2", "3", "4", "5", "6", "7", "8", "9", "_",
    "a", "b", "c", "d", "e", "f", "g", "h", "i", "j", "k", "l", "m", "n", "o",
    "p", "q", "r", "s", "t", "u", "v", "w", "x", "y", "z">>

CodePoint(c) == CHOOSE i \in 1..Len(AsciiOrder) : AsciiOrder[i] = c

\* the URL as one string
RECURSIVE UrlString(_)
UrlString(url) == IF url = <<>> THEN <<>> ELSE <<"/">> \o Head(url) \o UrlString(Tail(url))

\* a < b for strings, as Python compares them
RECURSIVE StrLess(_, _)
StrLess(a, b) ==
  IF b = <<>> THEN FALSE
  ELSE IF a = <<>> THEN TRUE
  ELSE IF Head(a) = Head(b) THEN StrLess(Tail(a), Tail(b))
  ELSE CodePoint(Head(a)) < CodePoint(Head(b))

\* sorted(candidates, reverse=True)
RECURSIVE SortedReverse(_)
SortedReverse(S) ==
  IF S = {} THEN <<>>
  ELSE LET m == CHOOSE x \in S : \A y \in S \ {x} : StrLess(UrlString(y), UrlString(x))
       IN  <<m>> \o SortedReverse(S \ {m})

\* the hrefs of one seed page that _resolve_results_urls keeps
SeedCandidates(anchors) ==
  {a[1] : a \in {anchors[i] : i \in {j \in 1..Len(anchors) :
      LET href == anchors[j][1]
      IN  /\ ~IsDownloadable(href)
          /\ \E k \in 1..(Len(href) - 1) : href[k] = s_resultados_sinisa
          /\ ~\E k \in 1..(Len(href) - 1) : href[k] = s_arquivos}}}

\* _resolve_results_urls; web maps a page URL to its anchors, the fetch of a
\* seed in failing (or of a page the site does not have) raises
ResolveResultsUrls(results_url, web, failing) ==
  IF results_url # <<>> THEN <<results_url>>
  ELSE
    LET seeds == {SINISA_HOME_URL, DEFAULT_RESULTS_URL}
        fetched == {s \in seeds : s \in DOMAIN web /\ s \notin failing}
    IN  SortedReverse({DEFAULT_RESULTS_URL}
          \cup UNION {SeedCandidates(ExtractAnchors(web[s], s)) : s \in fetched})

\* the crawl without the set of URLs already seen on earlier pages
RECURSIVE CrawlPages_NoSeen(_, _, _, _)
CrawlPages_NoSeen(page_urls, web, failing, seen) ==
  IF page_urls = <<>> THEN <<>>
  ELSE
    LET page_url == Head(page_urls)
    IN  IF page_url \notin DOMAIN web \/ page_url \in failing
          THEN CrawlPages_NoSeen(Tail(page_urls), web, failing, seen)
          ELSE ExtractLinks(web[page_url], page_url)
               \o CrawlPages_NoSeen(Tail(page_urls), web, failing, seen)

\* the first loop of _list_documents: the links of the pages, the first
\* occurrence of each URL kept
RECURSIVE CrawlPages(_, _, _, _)
CrawlPages(page_urls, web, failing, seen) ==
  IF page_urls = <<>> THEN <<>>
  ELSE
    LET page_url == Head(page_urls)
    IN  IF page_url \notin DOMAIN web \/ page_url \in failing
          THEN CrawlPages(Tail(page_urls), web, failing, seen)
          ELSE LET found == ExtractLinks(web[page_url], page_url)
                   fresh == SelectSeq(found, LAMBDA doc : doc.url \notin seen)
               IN  fresh \o CrawlPages(Tail(page_urls), web, failing,
                                       seen \cup {found[i].url : i \in 1..Len(found)})

\* the second loop of _list_documents; modules = <<>> is None (or empty)
FilterLinks(links, file_kinds, modules) ==
  SelectSeq(links, LAMBDA doc :
    /\ s_all \in SeqToSet(file_kinds) \/ doc.kind \in SeqToSet(file_kinds)
    /\ modules = <<>> \/ doc.module \in SeqToSet(modules))

\* the crawl with the filters applied to a link before it is looked up in seen
RECURSIVE CrawlFiltered(_, _, _, _, _, _)
CrawlFiltered(page_urls, web, failing, seen, file_kinds, modules) ==
  IF page_urls = <<>> THEN <<>>
  ELSE
    LET page_url == Head(page_urls)
    IN  IF page_url \notin DOMAIN web \/ page_url \in failing
          THEN CrawlFiltered(Tail(page_urls), web, failing, seen, file_kinds, modules)
          ELSE LET found == FilterLinks(ExtractLinks(web[page_url], page_url), file_kinds, modules)
                   fresh == SelectSeq(found, LAMBDA doc : doc.url \notin seen)
               IN  fresh \o CrawlFiltered(Tail(page_urls), web, failing,
                                          seen \cup {found[i].url : i \in 1..Len(found)},
                                          file_kinds, modules)

ListDocuments_FilterWhileCrawling(results_url, file_kinds, modules, web, failSeed, failPage) ==
  CrawlFiltered(ResolveResultsUrls(results_url, web, failSeed), web, failPage, {},
                file_kinds, modules)

\* _list_documents, the failing fetches of its two crawls given
ListDocuments(results_url, file_kinds, modules, web, failSeed, failPage) ==
  FilterLinks(CrawlPages(ResolveResultsUrls(results_url, web, failSeed), web, failPage, {}),
              file_kinds, modules)

(***************************************************************************)
(* Bounded inputs of _list_documents                                       *)
(***************************************************************************)
MaxAnchors == 2

s_f == <<"f">>

s_d_csv == <<"d", ".", "c", "s", "v">>

s_agua_zip == <<"a", "g", "u", "a", ".", "z", "i", "p">>

s_page == <<"p", "a", "g", "e">>

s_2023 == <<"2", "0", "2", "3">>

s_txt_planilha == <<"P", "l", "a", "n", "i", "l", "h", "a">>

s_txt_relatorio ==
  <<"R", "e", "l", "a", "t", "o'", "r", "i", "o", " ", "d", "e", " ", "a'",
    "g", "u", "a">>

s_txt_indicadores ==
  <<"I", "n", "d", "i", "c", "a", "d", "o", "r", "e", "s", " ", "d", "e",
    " ", "e", "s", "g", "o", "t", "o">>

\* the listing page the home page links to
ResultsPage2023 == <<s_sinisa, s_resultados_sinisa, s_2023>>

\* anchors: two spellings of one URL with different texts, a relative href (one
\* file name, a different URL on each page), a link without text, a "#" target
\* and a link to a page that is no document
AnchorUniverse ==
  { Anchor(Href("abs", <<s_f, s_d_csv>>), s_txt_planilha),
    Anchor(Href("abs", <<s_f, s_d_csv, s_view>>), s_txt_relatorio),
    Anchor(Href("rel", <<s_d_csv>>), s_txt_indicadores),
    Anchor(Href("abs", <<s_f, s_agua_zip>>), <<>>),
    Anchor(Href("frag", <<>>), s_txt_planilha),
    Anchor(Href("abs", <<s_f, s_page>>), s_txt_planilha) }

\* the anchors of page n among the items, in order
PageAnchors(items, n) ==
  LET mine == SelectSeq(items, LAMBDA it : it.page = n)
  IN  [i \in 1..Len(mine) |-> mine[i].anchor]

\* the site: the home page links to the 2023 listing, the two listings hold
\* the items' anchors
ListWeb(a) ==
  (SINISA_HOME_URL :> <<Anchor(Href("abs", ResultsPage2023), <<>>)>>)
  @@ (DEFAULT_RESULTS_URL :> PageAnchors(a.items, 1))
  @@ (ResultsPage2023 :> PageAnchors(a.items, 2))

ListInit ==
  /\ arg \in [items : SeqsUpTo([page : {1, 2}, anchor : AnchorUniverse], MaxAnchors),
              results_url : {<<>>, DEFAULT_RESULTS_URL},
              file_kinds : {<<s_planilhas>>, <<s_all>>, <<s_relatorios, s_planilhas>>},
              modules : {<<>>, <<s_agua>>}]
  /\ fs = EmptyFs
  /\ pc = "call"
  /\ ret = None
  /\ docs = <<>>
  /\ docIdx = 0
  /\ tabular_files = <<>>
  /\ fileIdx = 0
  /\ long_frames = <<>>
  /\ hist = <<>>

\* one call of _list_documents; which fetches fail is the network's choice
ListCall ==
  /\ pc = "call"
  /\ \E failSeed \in SUBSET {SINISA_HOME_URL},
        failPage \in SUBSET {DEFAULT_RESULTS_URL, ResultsPage2023} :
       /\ ret' = ListDocuments(arg.results_url, arg.file_kinds, arg.modules,
                               ListWeb(arg), failSeed, failPage)
       /\ hist' = [failSeed |-> failSeed, failPage |-> failPage]
  /\ pc' = "return"
  /\ UNCHANGED <<fs, arg, docs, docIdx, tabular_files, fileIdx, long_frames>>

ListNext == ListCall

SpecList == ListInit /\ [][ListNext]_vars

(***************************************************************************)
(* C9, C10                                                                 *)
(***************************************************************************)
\* the pages the call read, in crawl order
PagesRead ==
  SelectSeq(ResolveResultsUrls(arg.results_url, ListWeb(arg), hist.failSeed),
            LAMBDA u : u \in DOMAIN ListWeb(arg) /\ u \notin hist.failPage)

\* every document anchor of the pages read, in page-then-anchor order
RECURSIVE AnchorsInOrder(_)
AnchorsInOrder(pages) ==
  IF pages = <<>> THEN <<>>
  ELSE SelectSeq(ExtractAnchors(ListWeb(arg)[Head(pages)], Head(pages)),
                 LAMBDA a : IsDownloadable(a[1]))
       \o AnchorsInOrder(Tail(pages))

FirstWith(anchors, url) ==
  anchors[MinOf({i \in 1..Len(anchors) : anchors[i][1] = url})]

\* C9: the list _list_documents returns holds no two links with the same
\* resolved URL, and the link kept for a URL is its first occurrence in
\* page-then-anchor order (its text is that occurrence's text).
C9_NoDuplicateUrl ==
  pc = "return" =>
    /\ \A i, j \in 1..Len(ret) : ret[i].url = ret[j].url => i = j
    /\ \A i \in 1..Len(ret) :
         /\ \E k \in 1..Len(AnchorsInOrder(PagesRead)) :
              AnchorsInOrder(PagesRead)[k][1] = ret[i].url
         /\ ret[i].text = FirstWith(AnchorsInOrder(PagesRead), ret[i].url)[2]

\* a URL met on both pages, under two spellings, is returned once
C9_Witness ==
  /\ pc = "return"
  /\ Len(PagesRead) = 2
  /\ \E k, l \in 1..Len(AnchorsInOrder(PagesRead)) :
       /\ k # l
       /\ AnchorsInOrder(PagesRead)[k][1] = AnchorsInOrder(PagesRead)[l][1]
       /\ AnchorsInOrder(PagesRead)[k][2] # AnchorsInOrder(PagesRead)[l][2]
       /\ \E i \in 1..Len(ret) : ret[i].url = AnchorsInOrder(PagesRead)[k][1]

\* what the same crawl returns with file_kinds = ["all"] and no modules
Unfiltered ==
  ListDocuments(arg.results_url, <<s_all>>, <<>>, ListWeb(arg), hist.failSeed, hist.failPage)

KindWanted(doc) == s_all \in SeqToSet(arg.file_kinds) \/ doc.kind \in SeqToSet(arg.file_kinds)

ModuleWanted(doc) == arg.modules = <<>> \/ doc.module \in SeqToSet(arg.modules)

\* C10: the result of _list_documents is the unfiltered result restricted, in
\* the same order, to the links whose kind and module the filters want.
C10_FilterAfterDedup ==
  pc = "return" =>
    ret = SelectSeq(Unfiltered, LAMBDA doc : KindWanted(doc) /\ ModuleWanted(doc))

\* a duplicate URL whose first occurrence the filters drop and whose second
\* occurrence, taken alone, they would keep
C10_Witness ==
  /\ pc = "return"
  /\ \E k, l \in 1..Len(AnchorsInOrder(PagesRead)) :
       LET first == SinisaDocumentLink(AnchorsInOrder(PagesRead)[k][1], AnchorsInOrder(PagesRead)[k][2])
           second == SinisaDocumentLink(AnchorsInOrder(PagesRead)[l][1], AnchorsInOrder(PagesRead)[l][2])
       IN  /\ k < l
           /\ first.url = second.url
           /\ first \in SeqToSet(Unfiltered)
           /\ ~(KindWanted(first) /\ ModuleWanted(first))
           /\ KindWanted(second) /\ ModuleWanted(second)
           /\ \A i \in 1..Len(ret) : ret[i].url # first.url

(***************************************************************************)
(* Cells and values.  A raw cell and a parsed value are records tagged by  *)
(* t: "nan" (None/NaN, the absent value), "str", "int", "float" (sign,     *)
(* integer part, fraction digits) and "bool".                              *)
(***************************************************************************)
NaN == [t |-> "nan"]

StrCell(s) == [t |-> "str", v |-> s]

IntCell(n) == [t |-> "int", v |-> n]

FloatCell(neg, ip, fp) == [t |-> "float", neg |-> neg, ip |-> ip, fp |-> fp]

BoolCell(b) == [t |-> "bool", v |-> b]

DigitSeq == <<"0", "1", "2", "3", "4", "5", "6", "7", "8", "9">>

DigitVal(c) == (CHOOSE i \in 1..10 : DigitSeq[i] = c) - 1

\* int(digits) for a sequence of decimal digits
RECURSIVE StrToNat(_)
StrToNat(s) == IF s = <<>> THEN 0 ELSE StrToNat(Front(s)) * 10 + DigitVal(Last(s))

\* str(n) for n >= 0
RECURSIVE NatToStr(_)
NatToStr(n) == IF n < 10 THEN <<DigitSeq[n + 1]>> ELSE NatToStr(n \div 10) \o <<DigitSeq[(n % 10) + 1]>>

IntToStr(n) == IF n < 0 THEN <<"-">> \o NatToStr(-n) ELSE NatToStr(n)

\* str(value)
CellStr(value) ==
  CASE value.t = "str" -> value.v
    [] value.t = "int" -> IntToStr(value.v)
    [] value.t = "float" -> (IF value.neg THEN <<"-">> ELSE <<>>) \o NatToStr(value.ip) \o <<".">> \o value.fp
    [] value.t = "bool" -> IF value.v THEN <<"T", "r", "u", "e">> ELSE <<"F", "a", "l", "s", "e">>
    [] OTHER -> <<"n", "a", "n">>

\* pd.isna(value)
IsNa(value) == value.t = "nan"

\* datetime.now().year
CurrentYear == 2026

NormalizeCityCode_AnyLength(value) ==
  IF IsNa(value) THEN NaN
  ELSE LET digits == SelectSeq(CellStr(value), LAMBDA c : c \in Digits)
       IN  IF digits # <<>> THEN IntCell(StrToNat(digits)) ELSE NaN

\* _normalize_city_code
NormalizeCityCode(value) ==
  IF IsNa(value) THEN NaN
  ELSE LET digits == SelectSeq(CellStr(value), LAMBDA c : c \in Digits)
       IN  IF Len(digits) = 7 THEN IntCell(StrToNat(digits))
           ELSE IF Len(digits) = 6 THEN IntCell(StrToNat(digits))
           ELSE NaN

\* the places where (19\d{2}|20\d{2}) matches in s
YearMatches(s) ==
  {i \in 1..(Len(s) - 3) :
     /\ <<s[i], s[i + 1]>> \in {<<"1", "9">>, <<"2", "0">>}
     /\ s[i + 2] \in Digits
     /\ s[i + 3] \in Digits}

NormalizeYear_NoRange(value) ==
  IF IsNa(value) THEN NaN
  ELSE LET s == CellStr(value)
       IN  IF YearMatches(s) = {} THEN NaN
           ELSE IntCell(StrToNat(SubSeq(s, MinOf(YearMatches(s)), MinOf(YearMatches(s)) + 3)))

\* _normalize_year: re.search takes the leftmost match
NormalizeYear(value) ==
  IF IsNa(value) THEN NaN
  ELSE LET s == CellStr(value)
       IN  IF YearMatches(s) = {} THEN NaN
           ELSE LET i == MinOf(YearMatches(s))
                    year == StrToNat(SubSeq(s, i, i + 3))
                IN  IF year < 1980 \/ year > CurrentYear + 1 THEN NaN ELSE IntCell(year)

\* _infer_year_from_text: re.findall scans left to right without overlap; the
\* first match in range is returned
RECURSIVE InferYearFrom(_, _)
InferYearFrom(text, from) ==
  LET later == {i \in YearMatches(text) : i >= from}
  IN  IF later = {} THEN NaN
      ELSE LET i == MinOf(later)
               year == StrToNat(SubSeq(text, i, i + 3))
           IN  IF 1980 <= year /\ year <= CurrentYear + 1 THEN IntCell(year)
               ELSE InferYearFrom(text, i + 4)

InferYearFromText(text) == InferYearFrom(text, 1)

RECURSIVE ReplaceChar(_, _, _)
ReplaceChar(s, c, by) ==
  IF s = <<>> THEN <<>>
  ELSE (IF Head(s) = c THEN by ELSE <<Head(s)>>) \o ReplaceChar(Tail(s), c, by)

\* the digits of a numeral, single underscores between digits allowed
IsNumeral(s) ==
  /\ s # <<>>
  /\ \A i \in 1..Len(s) : s[i] \in Digits \cup {"_"}
  /\ Head(s) # "_" /\ Last(s) # "_"
  /\ \A i \in 1..(Len(s) - 1) : ~(s[i] = "_" /\ s[i + 1] = "_")

NumeralDigits(s) == SelectSeq(s, LAMBDA c : c \in Digits)

Unsigned(s) == IF s # <<>> /\ Head(s) \in {"+", "-"} THEN Tail(s) ELSE s

IsNegative(s) == s # <<>> /\ Head(s) = "-"

\* int(s) does not raise (s is already stripped)
IntParses(s) == IsNumeral(Unsigned(s))

IntOf(s) ==
  IF IsNegative(s) THEN 0 - StrToNat(NumeralDigits(Unsigned(s)))
  ELSE StrToNat(NumeralDigits(Unsigned(s)))

DotAt(s) == MinOf({i \in 1..Len(s) : s[i] = "."})

\* float(s) does not raise, for s holding a "." and no exponent
FloatParses(s) ==
  LET u == Unsigned(s)
      n == Cardinality({i \in 1..Len(u) : u[i] = "."})
  IN  /\ n = 1
      /\ LET ip == SubSeq(u, 1, DotAt(u) - 1)
             fp == SubSeq(u, DotAt(u) + 1, Len(u))
         IN  /\ ip = <<>> \/ IsNumeral(ip)
             /\ fp = <<>> \/ IsNumeral(fp)
             /\ ip # <<>> \/ fp # <<>>

RECURSIVE DropTrailingZeros(_)
DropTrailingZeros(s) == IF s # <<>> /\ Last(s) = "0" THEN DropTrailingZeros(Front(s)) ELSE s

FloatOf(s) ==
  LET u == Unsigned(s)
      ip == NumeralDigits(SubSeq(u, 1, DotAt(u) - 1))
      fp == DropTrailingZeros(NumeralDigits(SubSeq(u, DotAt(u) + 1, Len(u))))
  IN  FloatCell(IsNegative(s), StrToNat(ip), IF fp = <<>> THEN <<"0">> ELSE fp)

ParseDataValue_KeepSentinels(value) ==
  IF IsNa(value) THEN NaN
  ELSE IF value.t \in {"bool", "int", "float"} THEN value
  ELSE StrCell(Strip(CellStr(value)))

ParseDataValue_ReturnCleaned(value) ==
  IF IsNa(value) THEN NaN
  ELSE IF value.t \in {"bool", "int", "float"} THEN value
  ELSE
    LET text == Strip(CellStr(value))
        lowered == Lower(text)
        numeric_text == ReplaceChar(ReplaceChar(ReplaceChar(text, "%", <<>>), ".", <<>>), ",", <<".">>)
    IN  IF text = <<>> \/ text \in {<<"-">>, <<"-", "-">>, <<"-", "-", "-">>, <<"N", "/", "A">>, <<"n", "/", "a">>, <<"N", "A">>}
          THEN NaN
        ELSE IF lowered \in {<<"s", "i", "m">>, <<"s">>, <<"y", "e", "s">>, <<"t", "r", "u", "e">>}
          THEN BoolCell(TRUE)
        ELSE IF lowered \in {<<"n", "a", "o">>, <<"n", "a~", "o">>, <<"n">>, <<"n", "o">>, <<"f", "a", "l", "s", "e">>}
          THEN BoolCell(FALSE)
        ELSE IF "." \in SeqToSet(numeric_text)
          THEN (IF FloatParses(numeric_text) THEN FloatOf(numeric_text) ELSE StrCell(numeric_text))
        ELSE (IF IntParses(numeric_text) THEN IntCell(IntOf(numeric_text)) ELSE StrCell(numeric_text))

\* _parse_data_value
ParseDataValue(value) ==
  IF IsNa(value) THEN NaN
  ELSE IF value.t = "bool" THEN value
  ELSE IF value.t \in {"int", "float"} THEN value
  ELSE
    LET text == Strip(CellStr(value))
        lowered == Lower(text)
        numeric_text == ReplaceChar(ReplaceChar(ReplaceChar(text, "%", <<>>), ".", <<>>), ",", <<".">>)
    IN  IF text = <<>> \/ text \in {<<"-">>, <<"-", "-">>, <<"-", "-", "-">>, <<"N", "/", "A">>, <<"n", "/", "a">>, <<"N", "A">>}
          THEN NaN
        ELSE IF lowered \in {<<"s", "i", "m">>, <<"s">>, <<"y", "e", "s">>, <<"t", "r", "u", "e">>}
          THEN BoolCell(TRUE)
        ELSE IF lowered \in {<<"n", "a", "o">>, <<"n", "a~", "o">>, <<"n">>, <<"n", "o">>, <<"f", "a", "l", "s", "e">>}
          THEN BoolCell(FALSE)
        ELSE IF "." \in SeqToSet(numeric_text)
          THEN (IF FloatParses(numeric_text) THEN FloatOf(numeric_text) ELSE StrCell(text))
        ELSE (IF IntParses(numeric_text) THEN IntCell(IntOf(numeric_text)) ELSE StrCell(text))

(***************************************************************************)
(* Column names: _normalize_indicator_name, _normalize_columns             *)
(***************************************************************************)
\* _normalize_indicator_name
NormalizeIndicatorName(name) ==
  LET lowered == Lower(Strip(name))
      no_accents == [i \in 1..Len(lowered) |-> StripAccent(lowered[i])]
  IN  Upper(StripChar(SubNonAlnum(no_accents, "_", FALSE), "_"))

\* the loop of _normalize_columns: used maps a base name to its next suffix
RECURSIVE NormalizeColumnsLoop(_, _)
NormalizeColumnsLoop(cols, used) ==
  IF cols = <<>> THEN <<>>
  ELSE
    LET norm == NormalizeIndicatorName(Head(cols))
        base == IF norm = <<>> THEN <<"c", "o", "l", "u", "n", "a">> ELSE norm
    IN  IF base \notin DOMAIN used
          THEN <<base>> \o NormalizeColumnsLoop(Tail(cols), (base :> 1) @@ used)
          ELSE <<base \o <<"_">> \o NatToStr(used[base])>>
               \o NormalizeColumnsLoop(Tail(cols), (base :> (used[base] + 1)) @@ used)

\* _normalize_columns: the new column names
NormalizeColumns(cols) == NormalizeColumnsLoop(cols, <<>>)

(***************************************************************************)
(* Column role inference and the long-format assembler.  A table is        *)
(* [columns, rows]: the header cells read by the loader and, per row, one  *)
(* cell per column.                                                        *)
(***************************************************************************)
Table(columns, rows) == [columns |-> columns, rows |-> rows]

\* _CITY_CODE_CANDIDATES
CITY_CODE_CANDIDATES ==
  << 
    <<"c", "o", "d", "i", "g", "o", "_", "m", "u", "n", "i", "c", "i", "p", "i", "o">>,
    <<"c", "o", "d", "_", "m", "u", "n", "i", "c", "i", "p", "i", "o">>,
    <<"m", "u", "n", "i", "c", "i", "p", "i", "o", "_", "c", "o", "d", "i", "g", "o">>,
    <<"i", "d", "_", "m", "u", "n", "i", "c", "i", "p", "i", "o">>,
    <<"i", "d", "_", "m", "u", "n", "i", "c", "i", "p", "i", "o", "_", "i", "b", "g", "e">>,
    <<"c", "o", "d", "_", "i", "b", "g", "e">>, <<"i", "b", "g", "e">> >>

\* _YEAR_CANDIDATES
YEAR_CANDIDATES ==
  << <<"a", "n", "o">>,
    <<"a", "n", "o", "_", "r", "e", "f", "e", "r", "e", "n", "c", "i", "a">>,
    <<"a", "n", "o", "r", "e", "f", "e", "r", "e", "n", "c", "i", "a">>,
    <<"a", "n", "o", "_", "b", "a", "s", "e">>,
    <<"a", "n", "o", "_", "r", "e", "f">>, <<"y", "e", "a", "r">> >>

\* _NON_INDICATOR_COLS
NON_INDICATOR_COLS ==
  { <<"m", "u", "n", "i", "c", "i", "p", "i", "o">>,
    <<"n", "o", "m", "e", "_", "m", "u", "n", "i", "c", "i", "p", "i", "o">>,
    <<"u", "f">>, <<"e", "s", "t", "a", "d", "o">>,
    <<"s", "i", "g", "l", "a", "_", "u", "f">>,
    <<"r", "e", "g", "i", "a", "o">>,
    <<"m", "i", "c", "r", "o", "r", "r", "e", "g", "i", "a", "o">>,
    <<"m", "e", "s", "o", "r", "r", "e", "g", "i", "a", "o">>,
    <<"p", "r", "e", "s", "t", "a", "d", "o", "r">>,
    <<"p", "r", "e", "s", "t", "a", "d", "o", "r", "_", "n", "o", "m", "e">>,
    <<"s", "e", "r", "v", "i", "c", "o">>,
    <<"s", "i", "s", "t", "e", "m", "a">>,
    <<"l", "o", "c", "a", "l", "i", "d", "a", "d", "e">>,
    <<"c", "o", "d", "i", "g", "o", "_", "l", "o", "c", "a", "l", "i", "d", "a", "d", "e">>,
    <<"d", "e", "s", "c", "r", "i", "c", "a", "o">>,
    <<"t", "i", "p", "o">>, <<"c", "l", "a", "s", "s", "e">> }

\* the sample of _find_city_code_col
SampleRows == 500

\* the least hit count _find_city_code_col accepts
MinHits == 10

\* the distinct text values above which a column is descriptive
MaxTextValues == 20

\* the positions of the columns called name
ColumnsNamed(columns, name) == {j \in 1..Len(columns) : columns[j] = name}

\* df[name] is a DataFrame, not a Series: applying a cell function to it raises
IsDuplicated(columns, name) == Cardinality(ColumnsNamed(columns, name)) > 1

\* df[name] as a Series, one cell per row
Series(columns, rows, name) ==
  LET j == CHOOSE k \in ColumnsNamed(columns, name) : TRUE
  IN  [i \in 1..Len(rows) |-> rows[i][j]]

\* the first alias, in the candidates' order, that is a column name in lower case
AliasColumn(columns, candidates) ==
  LET hits == {c \in 1..Len(candidates) :
                 \E j \in 1..Len(columns) : Lower(columns[j]) = candidates[c]}
  IN  IF hits = {} THEN NoModule
      ELSE columns[CHOOSE j \in 1..Len(columns) : Lower(columns[j]) = candidates[MinOf(hits)]]

Hits(columns, rows, name) ==
  Cardinality({i \in 1..Len(rows) : ~IsNa(NormalizeCityCode(Series(columns, rows, name)[i]))})

\* the scan of _find_city_code_col over the columns: best = [col, hits, raised]
RECURSIVE BestColumn(_, _, _, _)
BestColumn(columns, sample, j, best) ==
  IF j > Len(columns) \/ best.raised THEN best
  ELSE IF IsDuplicated(columns, columns[j])
    THEN [best EXCEPT !.raised = TRUE]
  ELSE LET hits == Hits(columns, sample, columns[j])
       IN  BestColumn(columns, sample, j + 1,
             IF hits > best.hits THEN [col |-> columns[j], hits |-> hits, raised |-> FALSE]
             ELSE best)

Max2(a, b) == IF a >= b THEN a ELSE b

Min2(a, b) == IF a <= b THEN a ELSE b

FindCityCodeCol_NoThreshold(columns, rows) ==
  LET alias == AliasColumn(columns, CITY_CODE_CANDIDATES)
  IN  IF alias # <<>> THEN [col |-> alias, raised |-> FALSE]
      ELSE [col |-> columns[1], raised |-> FALSE]

\* _find_city_code_col on the normalized columns: [col, raised]; col = <<>> is None
FindCityCodeCol(columns, rows) ==
  LET alias == AliasColumn(columns, CITY_CODE_CANDIDATES)
  IN  IF alias # <<>> THEN [col |-> alias, raised |-> FALSE]
      ELSE
        LET sample_size == Min2(Len(rows), SampleRows)
            sample == SubSeq(rows, 1, sample_size)
            best == BestColumn(columns, sample, 1, [col |-> <<>>, hits |-> 0, raised |-> FALSE])
        IN  IF best.raised THEN [col |-> <<>>, raised |-> TRUE]
            ELSE IF sample_size > 0 /\ best.hits >= Max2(MinHits, sample_size \div 2)
              THEN [col |-> best.col, raised |-> FALSE]
            ELSE [col |-> <<>>, raised |-> FALSE]

\* str(file_path)
PathString(path) == UrlString(path)

FindYearInfo_AlwaysInfer(columns, file_path) ==
  [col |-> AliasColumn(columns, YEAR_CANDIDATES),
   const |-> InferYearFromText(PathString(file_path))]

\* _find_year_info: [col, const]; col = <<>> and const = NaN are None
FindYearInfo(columns, file_path) ==
  LET alias == AliasColumn(columns, YEAR_CANDIDATES)
  IN  IF alias # <<>> THEN [col |-> alias, const |-> NaN]
      ELSE [col |-> <<>>, const |-> InferYearFromText(PathString(file_path))]

s_SINISA == <<"S", "I", "N", "I", "S", "A">>

s_GENERAL == <<"G", "E", "N", "E", "R", "A", "L">>

s_GERAL == <<"G", "E", "R", "A", "L">>

\* one LongRecord
LongRecord(code, year, indicator, value) ==
  [codigo_municipio |-> code, ano |-> year, indicador |-> indicator, valor |-> value]

\* the loop of _dataframe_to_long over indicator_cols: acc = [parts, raised]
RECURSIVE IndicatorParts(_, _, _, _, _, _, _)
IndicatorParts(indicator_cols, columns, rows, city_series, year_series, prefix, acc) ==
  IF indicator_cols = <<>> \/ acc.raised THEN acc
  ELSE
    LET indicator_col == Head(indicator_cols)
        rest == Tail(indicator_cols)
    IN  IF IsDuplicated(columns, indicator_col)
          THEN [acc EXCEPT !.raised = TRUE]
        ELSE
          LET parsed_vals == [i \in 1..Len(rows) |->
                                ParseDataValue(Series(columns, rows, indicator_col)[i])]
              has_value == {i \in 1..Len(rows) :
                              /\ ~IsNa(parsed_vals[i])
                              /\ ~IsNa(city_series[i])
                              /\ ~IsNa(year_series[i])}
              non_null_values == {parsed_vals[i] : i \in has_value}
              indicator_name == prefix \o <<"_">> \o NormalizeIndicatorName(indicator_col)
              kept == SelectSeq([i \in 1..Len(rows) |-> i], LAMBDA i : i \in has_value)
              part == [k \in 1..Len(kept) |->
                         LongRecord(city_series[kept[k]].v, year_series[kept[k]].v,
                                    indicator_name, parsed_vals[kept[k]])]
          IN  IF has_value = {}
                THEN IndicatorParts(rest, columns, rows, city_series, year_series, prefix, acc)
              ELSE IF /\ \A x \in non_null_values : x.t = "str"
                      /\ Cardinality(non_null_values) > MaxTextValues
                THEN IndicatorParts(rest, columns, rows, city_series, year_series, prefix, acc)
              ELSE IndicatorParts(rest, columns, rows, city_series, year_series, prefix,
                                  [acc EXCEPT !.parts = @ \o part])

\* _dataframe_to_long(df, file_path, module): [records, raised]; the empty
\* DataFrame is records = <<>>
DataframeToLong(df, file_path, module) ==
  LET columns == NormalizeColumns(df.columns)
      rows == df.rows
      empty == [records |-> <<>>, raised |-> FALSE]
      raise == [records |-> <<>>, raised |-> TRUE]
      city == FindCityCodeCol(columns, rows)
  IN  IF city.raised THEN raise
      ELSE IF city.col = <<>> THEN empty
      ELSE
        LET year == FindYearInfo(columns, file_path)
        IN  IF year.col = <<>> /\ IsNa(year.const) THEN empty
            ELSE IF IsDuplicated(columns, city.col) \/ IsDuplicated(columns, year.col)
              THEN raise
            ELSE
              LET city_series == [i \in 1..Len(rows) |->
                                    NormalizeCityCode(Series(columns, rows, city.col)[i])]
                  year_series == IF year.col # <<>>
                                   THEN [i \in 1..Len(rows) |->
                                           NormalizeYear(Series(columns, rows, year.col)[i])]
                                   ELSE [i \in 1..Len(rows) |-> year.const]
                  valid_rows == {i \in 1..Len(rows) :
                                   ~IsNa(city_series[i]) /\ ~IsNa(year_series[i])}
                  indicator_cols == SelectSeq(columns, LAMBDA col :
                                      /\ col \notin {city.col, year.col}
                                      /\ Lower(col) \notin NON_INDICATOR_COLS)
                  file_prefix == NormalizeIndicatorName(Stem(Last(file_path)))
                  module_prefix == IF module # <<>> THEN Upper(module) ELSE s_GERAL
                  prefix == s_SINISA \o <<"_">> \o module_prefix \o <<"_">> \o file_prefix
              IN  IF valid_rows = {} THEN empty
                  ELSE IF indicator_cols = <<>> THEN empty
                  ELSE LET long == IndicatorParts(indicator_cols, columns, rows, city_series,
                                                  year_series, prefix,
                                                  [parts |-> <<>>, raised |-> FALSE])
                       IN  IF long.raised THEN raise
                           ELSE [records |-> long.parts, raised |-> FALSE]

(***************************************************************************)
(* Tabular loader                                                          *)
(***************************************************************************)
\* the bytes of a table: fmt is "excel" (a workbook, sheet 0) or "csv"
TableFile(fmt, table) == [kind |-> "table", fmt |-> fmt, table |-> table]

\* the bytes of a delimited file by what pd.read_csv makes of them under each
\* encoding: reads[k] = [ok, table] for the k-th encoding
CsvFile(reads) == [kind |-> "csv", reads |-> reads]

\* the encodings _read_tabular_file tries, in its order
ENCODINGS == <<"utf-8-sig", "latin-1", "cp1252">>

\* pd.read_csv of the bytes under the k-th encoding: [ok, table]
ReadCsv(content, k) ==
  IF content.kind = "csv" THEN content.reads[k]
  ELSE IF content.kind = "table" /\ content.fmt = "csv" THEN [ok |-> TRUE, table |-> content.table]
  ELSE [ok |-> FALSE, table |-> Table(<<>>, <<>>)]

ReadTabularFile_LastEncoding(file_path, content) ==
  LET suffix == Lower(Suffix(Last(file_path)))
      none == [ok |-> FALSE, df |-> Table(<<>>, <<>>), tried |-> 0]
      parsed == {k \in 1..Len(ENCODINGS) : ReadCsv(content, k).ok}
  IN  IF suffix \in {s_xlsx, s_xls, s_ods}
        THEN (IF content.kind = "table" /\ content.fmt = "excel"
                THEN [ok |-> TRUE, df |-> content.table, tried |-> 0] ELSE none)
      ELSE IF suffix = s_csv /\ parsed # {}
        THEN [ok |-> TRUE,
              df |-> ReadCsv(content, CHOOSE k \in parsed : \A j \in parsed : j <= k).table,
              tried |-> Len(ENCODINGS)]
      ELSE [none EXCEPT !.tried = IF suffix = s_csv THEN Len(ENCODINGS) ELSE 0]

\* the loop of _read_tabular_file over the encodings, from the k-th on
RECURSIVE ReadCsvFrom(_, _)
ReadCsvFrom(content, k) ==
  IF k > Len(ENCODINGS) THEN [ok |-> FALSE, df |-> Table(<<>>, <<>>), tried |-> k - 1]
  ELSE IF ReadCsv(content, k).ok THEN [ok |-> TRUE, df |-> ReadCsv(content, k).table, tried |-> k]
  ELSE ReadCsvFrom(content, k + 1)

\* _read_tabular_file on the file's suffix and bytes: [ok, df, tried]; ok = FALSE
\* is None, tried is the number of encodings pd.read_csv was called with
ReadTabularFile(file_path, content) ==
  LET suffix == Lower(Suffix(Last(file_path)))
      none == [ok |-> FALSE, df |-> Table(<<>>, <<>>), tried |-> 0]
  IN  IF suffix \in {s_xlsx, s_xls, s_ods}
        THEN (IF content.kind = "table" /\ content.fmt = "excel"
                THEN [ok |-> TRUE, df |-> content.table, tried |-> 0] ELSE none)
      ELSE IF suffix = s_csv
        THEN ReadCsvFrom(content, 1)
      ELSE none

\* DataFrame.empty
IsEmptyFrame(df) == df.columns = <<>> \/ df.rows = <<>>

(***************************************************************************)
(* Merge and year partitioner                                              *)
(***************************************************************************)
MergeFrames_FirstPerEntity(frames) ==
  LET all == Flatten(frames)
      first == SelectSeq([i \in 1..Len(all) |-> i],
                 LAMBDA i : ~\E k \in 1..(i - 1) :
                    /\ all[k].codigo_municipio = all[i].codigo_municipio
                    /\ all[k].ano = all[i].ano)
  IN  [k \in 1..Len(first) |-> all[first[k]]]

\* pd.concat(long_frames), then dropna on year, entity code and value (the year
\* and the code of a record are integers already)
MergeFrames(frames) == SelectSeq(Flatten(frames), LAMBDA r : ~IsNa(r.valor))

RECURSIVE SortedAsc_Descending(_)
SortedAsc_Descending(S) ==
  IF S = {} THEN <<>>
  ELSE LET last == CHOOSE x \in S : \A y \in S : y <= x
       IN  <<last>> \o SortedAsc_Descending(S \ {last})

\* sorted(set of integers)
RECURSIVE SortedAsc(_)
SortedAsc(S) ==
  IF S = {} THEN <<>> ELSE <<MinOf(S)>> \o SortedAsc(S \ {MinOf(S)})

\* YearDataPoint(df, data_year)
YearDataPoint(df, data_year) == [df |-> df, data_year |-> data_year]

CreateDatapointsPerYear_FromYear(df) ==
  LET years == SortedAsc({df[i].ano : i \in 1..Len(df)})
  IN  [k \in 1..Len(years) |->
         YearDataPoint(SelectSeq(df, LAMBDA r : r.ano >= years[k]), years[k])]

\* _create_datapoints_per_year
CreateDatapointsPerYear(df) ==
  LET years == SortedAsc({df[i].ano : i \in 1..Len(df)})
  IN  [k \in 1..Len(years) |->
         YearDataPoint(SelectSeq(df, LAMBDA r : r.ano = years[k]), years[k])]

(***************************************************************************)
(* Bounded inputs of _dataframe_to_long.  A column is a raw header and a   *)
(* rule giving its cell on row i; a table has one to MaxCols columns and   *)
(* a number of rows on either side of the thresholds of the code.          *)
(***************************************************************************)
MaxCols == 3

s_t == <<"t">>

\* the cell of row i in a column of the given content
GenCell(content, i) ==
  CASE content = "code" ->
         IF i % 11 = 0 THEN StrCell(<<"s", "/", "n">>) ELSE IntCell(3500000 + i)
    [] content = "year" ->
         IF i % 7 = 0 THEN IntCell(1979) ELSE StrCell(NatToStr(2021 + (i % 2)))
    [] content = "number" ->
         IF i % 4 = 0 THEN StrCell(<<"-">>)
         ELSE IF i % 4 = 1 THEN NaN
         ELSE StrCell(NatToStr(i) \o <<",", "5">>)
    [] content = "text" -> StrCell(s_t \o NatToStr(i))
    [] content = "mixed" ->
         IF i = 2 THEN StrCell(<<"7">>) ELSE StrCell(s_t \o NatToStr(i))
    [] OTHER -> IntCell(i)

\* the columns holding the entity code: one under an alias, one the
\* statistical search has to find
CityColumns ==
  { [header |-> <<"i", "b", "g", "e">>, content |-> "code"],
    [header |-> <<"C", "o", "d">>, content |-> "code"] }

YearColumns == { [header |-> <<"A", "n", "o">>, content |-> "year"] }

\* the other columns: "A", "a" and "A_1" normalize to colliding names, "UF" is
\* in the stoplist, "%" normalizes to the empty name and holds one number
\* among its texts
ColumnUniverse ==
  { [header |-> <<"A">>, content |-> "number"],
    [header |-> <<"a">>, content |-> "text"],
    [header |-> <<"A", "_", "1">>, content |-> "int"],
    [header |-> <<"U", "F">>, content |-> "text"],
    [header |-> <<"%">>, content |-> "mixed"] }

\* 1 row; 12 rows (11 codes: the statistical search accepts); 25 and 26 rows
\* (20 and 21 valid rows: either side of the limit on distinct texts)
RowCounts == {1, 12, 25, 26}

s_a_csv == <<"a", ".", "c", "s", "v">>

s_a_2023_csv == <<"a", "_", "2", "0", "2", "3", ".", "c", "s", "v">>

LongTable(cols, n) ==
  Table([j \in 1..Len(cols) |-> cols[j].header],
        [i \in 1..n |-> [j \in 1..Len(cols) |-> GenCell(cols[j].content, i)]])

\* the columns of the table: the year column if any, the other columns, the
\* entity column if any
LongCols(a) == a.year \o a.other \o a.city

LongInit ==
  /\ arg \in [year : {<<>>} \cup {<<c>> : c \in YearColumns},
              other : SeqsUpTo(ColumnUniverse, MaxCols),
              city : {<<>>} \cup {<<c>> : c \in CityColumns},
              rows : RowCounts,
              name : {s_a_csv, s_a_2023_csv},
              module : {NoModule, s_agua}]
  /\ fs = EmptyFs
  /\ pc = "call"
  /\ ret = None
  /\ docs = <<>>
  /\ docIdx = 0
  /\ tabular_files = <<>>
  /\ fileIdx = 0
  /\ long_frames = <<>>
  /\ hist = <<>>

LongPath == Append(RawDir, arg.name)

\* one call of _dataframe_to_long
LongCall ==
  /\ pc = "call"
  /\ ret' = DataframeToLong(LongTable(LongCols(arg), arg.rows), LongPath, arg.module)
  /\ pc' = "return"
  /\ UNCHANGED <<fs, arg, docs, docIdx, tabular_files, fileIdx, long_frames, hist>>

LongNext == LongCall

SpecLong == LongInit /\ [][LongNext]_vars

(***************************************************************************)
(* C8                                                                      *)
(***************************************************************************)
LongDf == LongTable(LongCols(arg), arg.rows)

\* the roles of a table: the normalized headers, the entity column and the year
LongRoles ==
  LET columns == NormalizeColumns(LongDf.columns)
  IN  [columns |-> columns,
       city |-> FindCityCodeCol(columns, LongDf.rows),
       year |-> FindYearInfo(columns, LongPath)]

\* both roles were inferred
RolesInferred(roles) ==
  /\ ~roles.city.raised
  /\ roles.city.col # <<>>
  /\ roles.year.col # <<>> \/ ~IsNa(roles.year.const)

\* the position of the column holding a role (the name of a role column is no
\* duplicate: it is one of the aliases, or the search has looked into it)
RolePosition(roles, name) == CHOOSE j \in 1..Len(roles.columns) : roles.columns[j] = name

\* the entity code and the year of every row
RowCodes(roles) ==
  LET j == RolePosition(roles, roles.city.col)
  IN  [i \in 1..Len(LongDf.rows) |-> NormalizeCityCode(LongDf.rows[i][j])] \o <<>>

RowYears(roles) ==
  IF roles.year.col # <<>>
    THEN LET j == RolePosition(roles, roles.year.col)
         IN  [i \in 1..Len(LongDf.rows) |-> NormalizeYear(LongDf.rows[i][j])] \o <<>>
  ELSE [i \in 1..Len(LongDf.rows) |-> roles.year.const]

\* the value of every cell, by column
CellValues ==
  [j \in 1..Len(LongDf.columns) |->
     [i \in 1..Len(LongDf.rows) |-> ParseDataValue(LongDf.rows[i][j])] \o <<>>] \o <<>>

\* a column is descriptive: its values on the valid rows are all text, with
\* more than MaxTextValues distinct ones
Descriptive(valid, column) ==
  LET values == {column[i] : i \in {k \in valid : ~IsNa(column[k])}}
  IN  /\ \A x \in values : x.t = "str"
      /\ Cardinality(values) > MaxTextValues

\* column j is a kept indicator column
ColumnKept(roles, valid, values, j) ==
  /\ roles.columns[j] \notin {roles.city.col, roles.year.col}
  /\ Lower(roles.columns[j]) \notin NON_INDICATOR_COLS
  /\ ~Descriptive(valid, values[j])

LongPrefix ==
  s_SINISA \o <<"_">> \o (IF arg.module # <<>> THEN Upper(arg.module) ELSE s_GERAL)
    \o <<"_">> \o NormalizeIndicatorName(Stem(arg.name))

\* C8: for a table with inferred roles, _dataframe_to_long returns a frame, and
\* the frame holds one record for each pair (row, kept indicator column) whose
\* row is valid and whose cell parses to a value, and no other record.
C8_OneRecordPerPair ==
  pc = "return" =>
    LET roles == LongRoles
    IN  RolesInferred(roles) =>
          LET codes == RowCodes(roles)
              years == RowYears(roles)
              values == CellValues
              prefix == LongPrefix
              names == [j \in 1..Len(roles.columns) |->
                          prefix \o <<"_">> \o NormalizeIndicatorName(roles.columns[j])] \o <<>>
              valid == {i \in 1..Len(LongDf.rows) : ~IsNa(codes[i]) /\ ~IsNa(years[i])}
              kept == {j \in 1..Len(roles.columns) : ColumnKept(roles, valid, values, j)}
              pairs == {p \in valid \X kept : ~IsNa(values[p[2]][p[1]])}
              record(p) == LongRecord(codes[p[1]].v, years[p[1]].v, names[p[2]],
                                      values[p[2]][p[1]])
          IN  /\ ~ret.raised
              /\ Len(ret.records) = Cardinality(pairs)
              /\ \A p \in pairs :
                   Cardinality({k \in 1..Len(ret.records) : ret.records[k] = record(p)})
                     = Cardinality({q \in pairs : record(q) = record(p)})

\* the normalized headers of the table are distinct
DistinctColumns ==
  LET columns == NormalizeColumns(LongDf.columns)
  IN  \A j, k \in 1..Len(columns) : columns[j] = columns[k] => j = k

(***************************************************************************)
(* Bounded inputs of _create_datapoints_per_year                           *)
(***************************************************************************)
MaxRecords == 3

s_ind_x == <<"X">>

s_ind_y == <<"Y">>

RecordUniverse ==
  { LongRecord(3500001, y, n, IntCell(1)) : y \in {2021, 2022, 2023}, n \in {s_ind_x, s_ind_y} }

PartInit ==
  /\ arg \in [df : SeqsUpTo(RecordUniverse, MaxRecords)]
  /\ fs = EmptyFs
  /\ pc = "call"
  /\ ret = None
  /\ docs = <<>>
  /\ docIdx = 0
  /\ tabular_files = <<>>
  /\ fileIdx = 0
  /\ long_frames = <<>>
  /\ hist = <<>>

\* one call of _create_datapoints_per_year
PartCall ==
  /\ pc = "call"
  /\ ret' = CreateDatapointsPerYear(arg.df)
  /\ pc' = "return"
  /\ UNCHANGED <<fs, arg, docs, docIdx, tabular_files, fileIdx, long_frames, hist>>

PartNext == PartCall

SpecPart == PartInit /\ [][PartNext]_vars

(***************************************************************************)
(* C6                                                                      *)
(***************************************************************************)
\* C6: _create_datapoints_per_year returns one dataset per distinct year of the
\* records; a dataset holds the records of its year and no other, in the order
\* they have in the input; every input record is in exactly one dataset.
C6_PartitionByYear ==
  pc = "return" =>
    /\ \A k, l \in 1..Len(ret) : ret[k].data_year = ret[l].data_year => k = l
    /\ {ret[k].data_year : k \in 1..Len(ret)} = {arg.df[i].ano : i \in 1..Len(arg.df)}
    /\ \A k \in 1..Len(ret) :
         ret[k].df = SelectSeq(arg.df, LAMBDA r : r.ano = ret[k].data_year)
    /\ \A i \in 1..Len(arg.df) :
         Cardinality({k \in 1..Len(ret) : ret[k].data_year = arg.df[i].ano}) = 1

\* records of two years interleaved: the first and the third go to one dataset
C6_Witness ==
  /\ pc = "return"
  /\ Len(arg.df) = 3
  /\ arg.df[1].ano = arg.df[3].ano
  /\ arg.df[1].ano # arg.df[2].ano
  /\ arg.df[1] # arg.df[3]
  /\ Len(ret) = 2
  /\ \E k \in 1..2 : ret[k].df = <<arg.df[1], arg.df[3]>>

(***************************************************************************)
(* Downloader, _prepare_dirs, _cleanup_dir                                 *)
(***************************************************************************)
\* attempts in _download_document
Attempts == 2

\* what open(path, "wb") and an interrupted body leave: a truncated file
Partial == [kind |-> "partial"]

\* the loop of _download_document; outcomes gives, per attempt, "ok",
\* "fail_request" (the request or its status raises) or "fail_body" (the body
\* breaks off after the file was opened); served maps a URL to its bytes
RECURSIVE DownloadAttempts(_, _, _, _, _)
DownloadAttempts(f, url, file_path, served, outcomes) ==
  IF outcomes = <<>> THEN [fs |-> f, ok |-> FALSE, requests |-> 0]
  ELSE
    LET after == IF \/ Head(outcomes) = "fail_request"
                    \/ url \notin DOMAIN served
                    \/ IsDir(f, file_path)
                    \/ ~IsDir(f, Front(file_path))
                   THEN DownloadAttempts(f, url, file_path, served, Tail(outcomes))
                 ELSE IF Head(outcomes) = "fail_body"
                   THEN DownloadAttempts(WriteFile(f, file_path, Partial), url, file_path,
                                         served, Tail(outcomes))
                 ELSE [fs |-> WriteFile(f, file_path, served[url]), ok |-> TRUE,
                       requests |-> 0]
    IN  [after EXCEPT !.requests = @ + 1]

DownloadDocument_OneAttempt(f, doc, raw_dir, overwrite, served, outcomes) ==
  LET file_path == Append(raw_dir, Last(doc.url))
  IN  IF Exists(f, file_path) /\ ~overwrite
        THEN [fs |-> f, ok |-> TRUE, path |-> file_path, requests |-> 0]
      ELSE LET r == DownloadAttempts(f, doc.url, file_path, served, SubSeq(outcomes, 1, 1))
           IN  [fs |-> r.fs, ok |-> r.ok, path |-> file_path, requests |-> r.requests]

DownloadDocument_AlwaysRequest(f, doc, raw_dir, overwrite, served, outcomes) ==
  LET file_path == Append(raw_dir, Last(doc.url))
      r == DownloadAttempts(f, doc.url, file_path, served, outcomes)
  IN  [fs |-> r.fs, ok |-> r.ok, path |-> file_path, requests |-> r.requests]

\* _download_document: [fs, ok, path, requests]; ok = FALSE is None, requests
\* counts the calls of requests.get; outcomes gives the fate of Attempts attempts
DownloadDocument(f, doc, raw_dir, overwrite, served, outcomes) ==
  LET file_path == Append(raw_dir, Last(doc.url))
  IN  IF Exists(f, file_path) /\ ~overwrite
        THEN [fs |-> f, ok |-> TRUE, path |-> file_path, requests |-> 0]
      ELSE LET r == DownloadAttempts(f, doc.url, file_path, served, outcomes)
           IN  [fs |-> r.fs, ok |-> r.ok, path |-> file_path, requests |-> r.requests]

\* _prepare_dirs
PrepareDirs(f, extract_archives) ==
  LET f1 == Mkdir(f, RawDir)
  IN  IF extract_archives THEN Mkdir(f1, ExtractedDir) ELSE f1

\* _cleanup_dir
CleanupDir(f, path) == IF Exists(f, path) THEN RmTree(f, path) ELSE f

Finally_OnReturn(f, raised) == IF raised THEN f ELSE CleanupDir(f, BaseDir)

\* the finally clause of extract_database, on return and on exception alike
Finally(f, raised) == CleanupDir(f, BaseDir)

(***************************************************************************)
(* extract_database, one step per stage: the crawl, then one document per  *)
(* step, then one staged file per step, then the merge.  Every step that   *)
(* leaves the call (a return or an exception) runs the finally clause.     *)
(* hist is the history of the call: the exception that ended it and, per   *)
(* document handed to _download_document, its URL, its staging path,       *)
(* whether a path was returned and whether it was returned without a       *)
(* request (the file was there).                                           *)
(***************************************************************************)
MaxDocs == 2

s_g == <<"g">>

s_esgoto_csv == <<"e", "s", "g", "o", "t", "o", ".", "c", "s", "v">>

s_bad_zip == <<"b", "a", "d", ".", "z", "i", "p">>

s_dup_csv == <<"d", "u", "p", ".", "c", "s", "v">>

s_rel_pdf == <<"r", "e", "l", ".", "p", "d", "f">>

s_relatorio_csv == <<"r", "e", "l", "a", "t", "o", "r", "i", "o", ".", "c", "s", "v">>

s_semcod_csv == <<"s", "e", "m", "c", "o", "d", ".", "c", "s", "v">>

s_ind_2022_csv == <<"i", "n", "d", "_", "2", "0", "2", "2", ".", "c", "s", "v">>

s_z_xlsx == <<"z", ".", "x", "l", "s", "x">>

s_txt_agua == <<"P", "l", "a", "n", "i", "l", "h", "a", " ", "d", "e", " ", "a", "b", "a", "s", "t", "e", "c", "i", "m", "e", "n", "t", "o">>

\* indicator X for three entities (one cell is a sentinel, one code has six
\* digits); the year is in the file's name only
TableX ==
  Table(<<<<"i", "b", "g", "e">>, s_ind_x>>,
        << <<IntCell(3500001), StrCell(<<"1", ".", "2", "3", "4", ",", "5">>)>>,
           <<IntCell(3500002), StrCell(<<"-">>)>>,
           <<StrCell(<<"3", "5", "0", "0", "0", "3">>), IntCell(10)>> >>)

\* indicator Y, with a year column: 2022 for two entities of TableX, a year
\* before 1980, an empty cell, and 2021
TableY ==
  Table(<<<<"i", "b", "g", "e">>, <<"a", "n", "o">>, s_ind_y>>,
        << <<IntCell(3500001), StrCell(<<"2", "0", "2", "2">>), StrCell(<<"s", "i", "m">>)>>,
           <<IntCell(3500002), IntCell(2022), IntCell(5)>>,
           <<IntCell(3500001), IntCell(1979), IntCell(9)>>,
           <<IntCell(3500002), IntCell(2021), NaN>>,
           <<IntCell(3500002), IntCell(2021), StrCell(<<"3">>)>> >>)

TableZ ==
  Table(<<<<"C", "o", "d", "_", "I", "B", "G", "E">>, <<"A", "n", "o">>, <<"Z">>>>,
        << <<StrCell(<<"3", "5", "0", "0", "0", "0", "1">>), IntCell(2023), IntCell(7)>> >>)

\* headers that normalize to A, A_1, A_1
TableDup ==
  Table(<<<<"A">>, <<"a">>, <<"A", "_", "1">>>>,
        << <<IntCell(3500001), IntCell(1), IntCell(2)>> >>)

\* no column holds entity codes
TableNoCity ==
  Table(<<<<"n", "o", "m", "e">>, <<"v", "a", "l", "o", "r">>>>, << <<StrCell(<<"x">>), IntCell(1)>> >>)

u_agua_f == <<s_f, s_agua_zip>>

u_agua_g == <<s_g, s_agua_zip>>

u_esgoto == <<s_f, s_esgoto_csv>>

u_bad == <<s_f, s_bad_zip>>

u_dup == <<s_f, s_dup_csv>>

u_rel == <<s_f, s_rel_pdf>>

u_semcod == <<s_f, s_semcod_csv>>

u_relatorio == <<s_f, s_relatorio_csv>>

\* the bytes the site serves: two archives with one file name, a table, an
\* archive that is no zip container, a table with colliding headers, a report
\* as pdf, a table without entity codes and a report as csv (a table of its own
\* indicator)
Served ==
  (u_agua_f :> ZipOf(<<Member(FALSE, <<s_ind_2022_csv>>, FALSE, TableFile("csv", TableX)),
                       Member(FALSE, <<s_n_txt>>, FALSE, Blob(1))>>))
  @@ (u_agua_g :> ZipOf(<<Member(FALSE, <<s_z_xlsx>>, FALSE, TableFile("excel", TableZ))>>))
  @@ (u_esgoto :> TableFile("csv", TableY))
  @@ (u_bad :> Corrupt)
  @@ (u_dup :> TableFile("csv", TableDup))
  @@ (u_rel :> Blob(2))
  @@ (u_semcod :> TableFile("csv", TableNoCity))
  @@ (u_relatorio :> TableFile("csv", TableZ))

\* the links to the documents, each on its listing page (1 the default
\* listing, 2 the 2023 listing)
DocUniverse ==
  { [page |-> 1, anchor |-> Anchor(Href("abs", u_agua_f), s_txt_agua)],
    [page |-> 2, anchor |-> Anchor(Href("abs", u_agua_g), s_txt_planilha)],
    [page |-> 1, anchor |-> Anchor(Href("abs", u_esgoto), s_txt_indicadores)],
    [page |-> 2, anchor |-> Anchor(Href("abs", u_bad), s_txt_planilha)],
    [page |-> 2, anchor |-> Anchor(Href("abs", u_dup), s_txt_planilha)],
    [page |-> 1, anchor |-> Anchor(Href("abs", u_rel), s_txt_relatorio)],
    [page |-> 1, anchor |-> Anchor(Href("abs", u_semcod), s_txt_planilha)],
    [page |-> 2, anchor |-> Anchor(Href("abs", u_relatorio), s_txt_relatorio)] }

\* the staging area an interrupted earlier call has left: a truncated download
StaleFs == WriteFile(Mkdir(EmptyFs, RawDir), Append(RawDir, s_agua_zip), Partial)

Init ==
  /\ arg \in [items : SeqsUpTo(DocUniverse, MaxDocs),
              file_kinds : {<<s_planilhas>>, <<s_all>>},
              extract_archives : BOOLEAN,
              overwrite : BOOLEAN,
              stale : BOOLEAN]
  /\ fs = IF arg.stale THEN StaleFs ELSE EmptyFs
  /\ pc = "start"
  /\ ret = None
  /\ docs = <<>>
  /\ docIdx = 0
  /\ tabular_files = <<>>
  /\ fileIdx = 0
  /\ long_frames = <<>>
  /\ hist = [cause |-> "none", staged |-> {}]

\* the return of extract_database with the given datasets
Return(f, datasets) ==
  /\ fs' = Finally(f, FALSE)
  /\ ret' = datasets
  /\ pc' = "done"
  /\ UNCHANGED hist

\* an exception leaving extract_database; h is the history up to it
Raise(f, cause, h) ==
  /\ fs' = Finally(f, TRUE)
  /\ ret' = None
  /\ pc' = "raised"
  /\ hist' = [h EXCEPT !.cause = cause]

\* _prepare_dirs and _list_documents; which fetches fail is the network's choice
ListStep ==
  /\ pc = "start"
  /\ \E failSeed \in SUBSET {SINISA_HOME_URL},
        failPage \in SUBSET {DEFAULT_RESULTS_URL, ResultsPage2023} :
       LET f1 == PrepareDirs(fs, arg.extract_archives)
           found == ListDocuments(<<>>, arg.file_kinds, <<>>, ListWeb(arg), failSeed, failPage)
       IN  /\ docs' = found
           /\ IF found = <<>>
                THEN /\ Return(f1, <<>>)
                     /\ UNCHANGED docIdx
                ELSE /\ fs' = f1
                     /\ pc' = "download"
                     /\ docIdx' = 1
                     /\ UNCHANGED <<ret, hist>>
  /\ UNCHANGED <<arg, tabular_files, fileIdx, long_frames>>

Eligible_AnyKind(doc) == IsPlanilhaSource(doc.url)

\* the two guards at the head of the loop over docs
Eligible(doc) == doc.kind = s_planilhas /\ IsPlanilhaSource(doc.url)

\* the body of the loop over docs for docs[docIdx]
DownloadStep ==
  /\ pc = "download"
  /\ docIdx <= Len(docs)
  /\ LET doc == docs[docIdx]
     IN  IF ~Eligible(doc)
           THEN UNCHANGED <<fs, ret, pc, tabular_files, hist>>
         ELSE \E outcomes \in [1..Attempts -> {"ok", "fail_request", "fail_body"}] :
           \E d \in {DownloadDocument(fs, doc, RawDir, arg.overwrite, Served, outcomes)} :
             LET suffix == Lower(Suffix(Last(d.path)))
                 h == [hist EXCEPT !.staged = @ \cup
                        {[url |-> doc.url, path |-> d.path, ok |-> d.ok,
                          reused |-> d.requests = 0]}]
             IN  IF ~d.ok
                   THEN /\ fs' = d.fs
                        /\ hist' = h
                        /\ UNCHANGED <<ret, pc, tabular_files>>
                 ELSE IF suffix = s_zip
                   THEN IF arg.extract_archives
                          THEN \E x \in {ExtractZip(d.fs, d.path, ExtractedDir,
                                                    PLANILHA_FINAL_EXTENSIONS, arg.overwrite)} :
                                 IF x.raised
                                   THEN /\ Raise(x.fs, IF d.fs.files[d.path].kind # "zip"
                                                         THEN "BadZipFile" ELSE "OSError", h)
                                        /\ UNCHANGED tabular_files
                                   ELSE /\ fs' = x.fs
                                        /\ hist' = h
                                        /\ tabular_files' = tabular_files \o
                                             [k \in 1..Len(x.files) |->
                                                [path |-> x.files[k], module |-> doc.module]]
                                        /\ UNCHANGED <<ret, pc>>
                          ELSE /\ fs' = d.fs
                               /\ hist' = h
                               /\ UNCHANGED <<ret, pc, tabular_files>>
                 ELSE IF suffix \in PLANILHA_FINAL_EXTENSIONS
                   THEN /\ fs' = d.fs
                        /\ hist' = h
                        /\ tabular_files' = Append(tabular_files,
                                                   [path |-> d.path, module |-> doc.module])
                        /\ UNCHANGED <<ret, pc>>
                 ELSE /\ fs' = d.fs
                      /\ hist' = h
                      /\ UNCHANGED <<ret, pc, tabular_files>>
  /\ docIdx' = docIdx + 1
  /\ UNCHANGED <<arg, docs, fileIdx, long_frames>>

\* the end of the loop over docs
AfterDownloads ==
  /\ pc = "download"
  /\ docIdx > Len(docs)
  /\ IF tabular_files = <<>>
       THEN /\ Return(fs, <<>>)
            /\ UNCHANGED fileIdx
       ELSE /\ pc' = "load"
            /\ fileIdx' = 1
            /\ UNCHANGED <<fs, ret, hist>>
  /\ UNCHANGED <<arg, docs, docIdx, tabular_files, long_frames>>

\* the read and the assembly of one staged file on filesystem f: [raised, records]
LoadFile(f, file) ==
  LET read == ReadTabularFile(file.path,
                IF IsFile(f, file.path) THEN f.files[Normpath(file.path)] ELSE Corrupt)
  IN  IF ~read.ok \/ IsEmptyFrame(read.df)
        THEN [raised |-> FALSE, records |-> <<>>]
      ELSE DataframeToLong(read.df, file.path, file.module)

\* the body of the loop over tabular_files for tabular_files[fileIdx]
LoadStep ==
  /\ pc = "load"
  /\ fileIdx <= Len(tabular_files)
  /\ \E long_df \in {LoadFile(fs, tabular_files[fileIdx])} :
       IF long_df.raised
         THEN /\ Raise(fs, "ValueError", hist)
              /\ UNCHANGED long_frames
         ELSE /\ long_frames' = IF long_df.records # <<>>
                                  THEN Append(long_frames, long_df.records)
                                  ELSE long_frames
              /\ UNCHANGED <<fs, ret, pc, hist>>
  /\ fileIdx' = fileIdx + 1
  /\ UNCHANGED <<arg, docs, docIdx, tabular_files>>

\* the end of the loop over tabular_files, the merge and the partition
Finish ==
  /\ pc = "load"
  /\ fileIdx > Len(tabular_files)
  /\ IF long_frames = <<>>
       THEN Return(fs, <<>>)
       ELSE Return(fs, CreateDatapointsPerYear(MergeFrames(long_frames)))
  /\ UNCHANGED <<arg, docs, docIdx, tabular_files, fileIdx, long_frames>>

Next ==
  \/ ListStep
  \/ DownloadStep
  \/ AfterDownloads
  \/ LoadStep
  \/ Finish

Spec == Init /\ [][Next]_vars

(***************************************************************************)
(* C2, C3, C4, C5, C7                                                      *)
(***************************************************************************)
\* C2: every call of extract_database that has created the staging area ends,
\* by a return (empty or with datasets) or by an exception, with nothing left
\* at or under the staging directory.
C2_StagingRemoved ==
  pc \in {"done", "raised"} =>
    /\ ~Exists(fs, BaseDir)
    /\ \A q \in fs.dirs \cup DOMAIN fs.files : ~IsPrefix(BaseDir, q)

\* the call ends by an exception raised while the staged files are loaded
C2_Witness ==
  /\ pc = "raised"
  /\ hist.cause = "ValueError"
  /\ tabular_files # <<>>
  /\ ~Exists(fs, BaseDir)

\* C3: an archive that cannot be opened does not abort the call: no call ends
\* by the exception the opening of the archive raises.
C3_CorruptArchiveSkipped == ~(pc = "raised" /\ hist.cause = "BadZipFile")

\* the URLs the listing pages link to
Linked == {arg.items[i].anchor.href.segs : i \in 1..Len(arg.items)}

\* C4: when the site serves no broken archive, no earlier call has left files
\* behind and no table has colliding headers (the failures left are a page
\* that cannot be fetched, a download that fails on every attempt, a file that
\* is no table and a table without roles), extract_database does not raise.
C4_NeverRaises ==
  (~arg.stale /\ u_bad \notin Linked /\ u_dup \notin Linked) => pc # "raised"

\* the records assembled from the staged files, in assembly order
Assembled == Flatten(long_frames)

\* C5: a year for which two files yield records has exactly one dataset, and
\* the records of that dataset are the records assembled for the year from
\* all the files, each once.
C5_MergedPerYear ==
  pc = "done" =>
    \A y \in {Assembled[i].ano : i \in 1..Len(Assembled)} :
      /\ Cardinality({k \in 1..Len(ret) : ret[k].data_year = y}) = 1
      /\ \A k \in 1..Len(ret) :
           ret[k].data_year = y => ret[k].df = SelectSeq(Assembled, LAMBDA r : r.ano = y)

\* two files have yielded records of one year and one entity under different
\* indicators, and the year's dataset holds both
C5_Witness ==
  /\ pc = "done"
  /\ Len(long_frames) = 2
  /\ \E i \in 1..Len(long_frames[1]), j \in 1..Len(long_frames[2]) :
       /\ long_frames[1][i].ano = long_frames[2][j].ano
       /\ long_frames[1][i].codigo_municipio = long_frames[2][j].codigo_municipio
       /\ long_frames[1][i].indicador # long_frames[2][j].indicador
       /\ \E k \in 1..Len(ret) :
            /\ long_frames[1][i] \in SeqToSet(ret[k].df)
            /\ long_frames[2][j] \in SeqToSet(ret[k].df)

\* C7: every record of every dataset extract_database returns has an integer
\* entity code, an integer year between 1980 and the year after the current
\* one that is the year of its dataset, and a value that is not absent.
C7_RecordInvariants ==
  pc = "done" =>
    \A k \in 1..Len(ret) : \A i \in 1..Len(ret[k].df) :
      LET r == ret[k].df[i]
      IN  /\ r.codigo_municipio \in Int
          /\ r.ano \in Int
          /\ 1980 <= r.ano /\ r.ano <= CurrentYear + 1
          /\ r.ano = ret[k].data_year
          /\ ~IsNa(r.valor)

\* datasets of two years are returned from a table that also holds a year
\* before 1980 and an empty cell
C7_Witness ==
  /\ pc = "done"
  /\ Len(ret) >= 2
  /\ \E k \in 1..Len(tabular_files) : Last(tabular_files[k].path) = s_esgoto_csv
  /\ \E k \in 1..Len(ret) : \E i \in 1..Len(ret[k].df) :
       Last(ret[k].df[i].indicador) = "Y"

(***************************************************************************)
(* C11                                                                     *)
(***************************************************************************)
\* the link the crawl returned for a URL
DocOf(url) == docs[CHOOSE i \in 1..Len(docs) : docs[i].url = url]

\* C11: every document handed to the downloader, and so every staged file and
\* every file handed to the loader, comes from a link of kind planilhas.
C11_OnlySpreadsheets ==
  /\ \A st \in hist.staged : DocOf(st.url).kind = s_planilhas
  /\ pc \in {"download", "load"} =>
       \A q \in DOMAIN fs.files :
         IsPrefix(RawDir, q) =>
           \/ arg.stale /\ q = Append(RawDir, s_agua_zip)
           \/ \E st \in hist.staged : st.path = q
  /\ \A k \in 1..Len(tabular_files) :
       \E st \in hist.staged :
         \/ tabular_files[k].path = st.path
         \/ IsPrefix(Append(ExtractedDir, Stem(Last(st.path))), tabular_files[k].path)

\* with file_kinds = ["all"] a report published as csv was listed and passed
\* over, and a spreadsheet listed with it was loaded
C11_Witness ==
  /\ pc = "load"
  /\ arg.file_kinds = <<s_all>>
  /\ \E i \in 1..Len(docs) :
       /\ docs[i].url = u_relatorio
       /\ docs[i].kind = s_relatorios
       /\ IsPlanilhaSource(docs[i].url)
  /\ ~\E st \in hist.staged : st.url = u_relatorio
  /\ hist.staged # {}
  /\ tabular_files # <<>>

(***************************************************************************)
(* Bounded inputs of the staging of one document: _download_document, then *)
(* _extract_zip on the downloaded archive, in a staging area that may hold *)
(* the file and the destination directory already.                         *)
(***************************************************************************)
u_a_zip == <<s_f, s_a_zip>>

\* what the site serves under the URL, and what an earlier download has left
NewArchive == ZipOf(<<Member(FALSE, <<s_x_csv>>, FALSE, Blob(1))>>)

OldArchive == ZipOf(<<Member(FALSE, <<s_e_csv>>, FALSE, Blob(2))>>)

StageFs0(a) ==
  LET f0 == Mkdir(Mkdir(EmptyFs, RawDir), ExtractedDir)
      f1 == IF a.raw = "file" THEN WriteFile(f0, ZipPath, OldArchive)
            ELSE IF a.raw = "dir" THEN Mkdir(f0, ZipPath)
            ELSE f0
  IN  IF a.dest
        THEN WriteFile(Mkdir(f1, ZipDestination), Append(ZipDestination, s_old_csv), Blob(9))
        ELSE f1

StageServed(a) == IF a.served THEN (u_a_zip :> NewArchive) ELSE <<>>

StageInit ==
  /\ arg \in [raw : {"none", "file", "dir"},
              dest : BOOLEAN,
              served : BOOLEAN,
              overwrite : BOOLEAN,
              outcomes : [1..Attempts -> {"ok", "fail_request", "fail_body"}]]
  /\ fs = StageFs0(arg)
  /\ pc = "call"
  /\ ret = None
  /\ docs = <<>>
  /\ docIdx = 0
  /\ tabular_files = <<>>
  /\ fileIdx = 0
  /\ long_frames = <<>>
  /\ hist = <<>>

\* one call of _download_document
StageDownload ==
  /\ pc = "call"
  /\ \E d \in {DownloadDocument(fs, SinisaDocumentLink(u_a_zip, s_txt_planilha), RawDir,
                                arg.overwrite, StageServed(arg), arg.outcomes)} :
       /\ fs' = d.fs
       /\ ret' = [ok |-> d.ok, path |-> d.path, requests |-> d.requests]
  /\ pc' = "downloaded"
  /\ UNCHANGED <<arg, docs, docIdx, tabular_files, fileIdx, long_frames, hist>>

\* the call of _extract_zip on the path _download_document returned
StageExtract ==
  /\ pc = "downloaded"
  /\ ret.ok
  /\ \E x \in {ExtractZip(fs, ret.path, ExtractedDir, PLANILHA_FINAL_EXTENSIONS,
                          arg.overwrite)} :
       /\ fs' = x.fs
       /\ hist' = [files |-> x.files, raised |-> x.raised]
  /\ pc' = "extracted"
  /\ UNCHANGED <<arg, ret, docs, docIdx, tabular_files, fileIdx, long_frames>>

StageNext == StageDownload \/ StageExtract

SpecStage == StageInit /\ [][StageNext]_vars

(***************************************************************************)
(* C12                                                                     *)
(***************************************************************************)
\* the file is staged already and overwrite is off: no download takes place
Reused == Exists(StageFs0(arg), ZipPath) /\ ~arg.overwrite

\* attempt k gets the whole body into the file
AttemptSucceeds(k) ==
  /\ arg.outcomes[k] = "ok"
  /\ arg.served
  /\ arg.raw # "dir"

\* C12: _download_document issues at most two requests; when the first attempt
\* succeeds it issues one and returns the path, when the first fails it issues
\* exactly one more, returning the path if that one succeeds and no path if it
\* fails.
C12_AtMostOneRetry ==
  (pc = "downloaded" /\ ~Reused) =>
    /\ ret.requests <= 2
    /\ AttemptSucceeds(1) => ret.requests = 1 /\ ret.ok
    /\ ~AttemptSucceeds(1) => ret.requests = 2 /\ (ret.ok <=> AttemptSucceeds(2))
    /\ ret.ok => IsFile(fs, ret.path) /\ fs.files[ret.path] = NewArchive

\* the first attempt broke off in the body and the retry succeeded
C12_Witness ==
  /\ pc = "downloaded"
  /\ ~Reused
  /\ arg.outcomes = <<"fail_body", "ok">>
  /\ ret.requests = 2
  /\ ret.ok
  /\ fs.files[ret.path] = NewArchive

(***************************************************************************)
(* C13                                                                     *)
(***************************************************************************)
\* C13: two documents with distinct URLs handled in one call are staged at
\* distinct files of raw/ and extracted to distinct directories.
C13_DistinctStaging ==
  \A a, b \in hist.staged :
    a.url # b.url =>
      /\ a.path # b.path
      /\ Append(ExtractedDir, Stem(Last(a.path))) # Append(ExtractedDir, Stem(Last(b.path)))

(***************************************************************************)
(* C14                                                                     *)
(***************************************************************************)
\* the stages of a call in their order
Rank(p) ==
  CASE p = "start" -> 0
    [] p = "download" -> 1
    [] p = "load" -> 2
    [] OTHER -> 3

\* a document was handed, without a request, the file that a document
\* abandoned earlier in the call has left
LeftoverProcessed ==
  \E st, ab \in hist.staged :
    /\ st.url # ab.url
    /\ st.path = ab.path
    /\ st.reused
    /\ ~ab.ok

\* C14: a call moves through its stages in order and never back (no document
\* is fetched or staged once the loading of tables has started, the documents
\* and the files are taken one after the other), and what a unit that was
\* given up has left is not processed by a later stage.
C14_LinearPipeline ==
  [][ /\ Rank(pc') >= Rank(pc)
      /\ docIdx' >= docIdx
      /\ fileIdx' >= fileIdx
      /\ pc = "load" => /\ hist'.staged = hist.staged
                        /\ tabular_files' = tabular_files
                        /\ docIdx' = docIdx
      /\ ~LeftoverProcessed' ]_vars

\* the statement of the stage order alone
StageOrder ==
  [][ /\ Rank(pc') >= Rank(pc)
      /\ docIdx' >= docIdx
      /\ fileIdx' >= fileIdx
      /\ pc = "load" => /\ hist'.staged = hist.staged
                        /\ tabular_files' = tabular_files
                        /\ docIdx' = docIdx ]_vars

(***************************************************************************)
(* C15                                                                     *)
(***************************************************************************)
\* the file an earlier extraction has left in the destination directory
OldMember == Append(ZipDestination, s_old_csv)

\* C15: with overwrite off, _download_document issues no request for a
\* document whose file is in raw/ already and returns that file unchanged, and
\* _extract_zip extracts into the destination directory that is there, keeping
\* what it holds; with overwrite on, a request is always issued and the
\* destination directory that is there is removed before the extraction.
C15_OverwriteFlag ==
  /\ (pc \in {"downloaded", "extracted"} /\ ~arg.overwrite /\ arg.raw = "file") =>
       /\ ret = [ok |-> TRUE, path |-> ZipPath, requests |-> 0]
       /\ IsFile(fs, ZipPath)
       /\ fs.files[ZipPath] = OldArchive
  /\ (pc = "downloaded" /\ ~arg.overwrite /\ arg.raw = "file") => fs = StageFs0(arg)
  /\ (pc \in {"downloaded", "extracted"} /\ arg.overwrite) => ret.requests >= 1
  /\ (pc = "extracted" /\ ~arg.overwrite /\ arg.dest) =>
       /\ IsFile(fs, OldMember)
       /\ fs.files[OldMember] = Blob(9)
  /\ (pc = "extracted" /\ arg.overwrite /\ arg.dest) =>
       /\ ~Exists(fs, OldMember)
       /\ IsDir(fs, ZipDestination)
       /\ \A path \in DOMAIN fs.files :
            IsWithinDir(ZipDestination, path) =>
              \E i \in 1..Len(hist.files) : hist.files[i] = path

\* the staged archive and its destination directory are there, overwrite is
\* off: the archive is extracted again, next to the file of the earlier run
C15_Witness ==
  /\ pc = "extracted"
  /\ ~arg.overwrite
  /\ arg.raw = "file"
  /\ arg.dest
  /\ ret.requests = 0
  /\ hist.files = <<Append(ZipDestination, s_e_csv)>>
  /\ IsFile(fs, OldMember)

(***************************************************************************)
(* Bounded inputs of _find_city_code_col: tables without an alias of the   *)
(* entity code among the headers.  A column holds codes on its first rows  *)
(* or only below the sampled rows; the numbers of rows and of codes lie on *)
(* either side of the limits of the code.                                  *)
(***************************************************************************)
MaxCityCols == 3

\* the header of the column at each position ("A" and "a" normalize to A and
\* A_1, a third header "A_1" collides with the second)
CityHeaders == << <<"A">>, <<"a">>, <<"A", "_", "1">>, <<"B">> >>

\* the number of leading rows of a column that hold a code; "late" columns
\* hold codes from row SampleRows + 1 on as well
CityHitCounts == {0, 3, 10, 12, 13, 249, 250, 500}

CityProfiles ==
  {[hits |-> h, late |-> FALSE] : h \in CityHitCounts}
    \cup {[hits |-> h, late |-> TRUE] : h \in {0, 249}}

CityRowCounts == {9, 20, 25, 26, 500, 510}

CityCell(profile, i) ==
  IF profile.late /\ i > SampleRows
    THEN IntCell(3500000 + i)
  ELSE IF i <= profile.hits
    THEN IF i % 2 = 0 THEN IntCell(3500000 + i)
         ELSE StrCell(<<"3", "5", ".">> \o NatToStr(1000 + i) \o <<"-", "7">>)
  ELSE StrCell(<<"s", "/", "n">>)

CityTable(a) ==
  Table([j \in 1..Len(a.profiles) |-> CityHeaders[j]],
        [i \in 1..a.rows |-> [j \in 1..Len(a.profiles) |-> CityCell(a.profiles[j], i)]])

CityInit ==
  /\ arg \in [profiles : UNION {[1..k -> CityProfiles] : k \in 1..MaxCityCols},
              rows : CityRowCounts]
  /\ fs = EmptyFs
  /\ pc = "call"
  /\ ret = None
  /\ docs = <<>>
  /\ docIdx = 0
  /\ tabular_files = <<>>
  /\ fileIdx = 0
  /\ long_frames = <<>>
  /\ hist = <<>>

\* one call of _find_city_code_col on the table with normalized headers
CityCall ==
  /\ pc = "call"
  /\ \E df \in {CityTable(arg)} :
       ret' = FindCityCodeCol(NormalizeColumns(df.columns), df.rows)
  /\ pc' = "return"
  /\ UNCHANGED <<fs, arg, docs, docIdx, tabular_files, fileIdx, long_frames, hist>>

CityNext == CityCall

SpecCity == CityInit /\ [][CityNext]_vars

(***************************************************************************)
(* C16                                                                     *)
(***************************************************************************)
\* C16: on a table without an alias of the entity code, _find_city_code_col
\* counts, per column, the cells among the first 500 rows that normalize to
\* a code, and selects the column with the highest count if and only if that
\* count is at least 10 and at least half of the sampled rows; otherwise it
\* selects no column and the file gives no record.
C16_SelectionThreshold ==
  pc = "return" =>
    LET df == CityTable(arg)
        columns == NormalizeColumns(df.columns)
        sample_size == Min2(Len(df.rows), 500)
        count == [j \in 1..Len(columns) |->
                    Cardinality({i \in 1..sample_size :
                                   ~IsNa(NormalizeCityCode(df.rows[i][j]))})] \o <<>>
        best == CHOOSE b \in {count[j] : j \in 1..Len(columns)} :
                  \A j \in 1..Len(columns) : count[j] <= b
    IN  AliasColumn(columns, CITY_CODE_CANDIDATES) = <<>> =>
          /\ ~ret.raised
          /\ IF best >= 10 /\ 2 * best >= sample_size
               THEN \E j \in 1..Len(columns) : ret.col = columns[j] /\ count[j] = best
             ELSE /\ ret.col = <<>>
                  /\ DataframeToLong(df, Append(RawDir, s_a_2023_csv), NoModule).records = <<>>

(***************************************************************************)
(* C17                                                                     *)
(***************************************************************************)
\* C17: _find_year_info yields a year column and no constant, or no column
\* and the constant year of the file path, or neither; never both.  When it
\* yields neither, _dataframe_to_long returns no record.
C17_YearColumnOrConstant ==
  pc = "return" =>
    LET columns == NormalizeColumns(LongDf.columns)
        info == FindYearInfo(columns, LongPath)
    IN  /\ info.col = <<>> \/ IsNa(info.const)
        /\ info.col # <<>> =>
             \E j \in 1..Len(columns) :
               /\ info.col = columns[j]
               /\ \E c \in 1..Len(YEAR_CANDIDATES) : Lower(columns[j]) = YEAR_CANDIDATES[c]
        /\ info.col = <<>> => info.const = InferYearFromText(PathString(LongPath))
        /\ ~IsNa(info.const) => info.const.v \in 1980..(CurrentYear + 1)
        /\ (info.col = <<>> /\ IsNa(info.const)) => ret.records = <<>>

\* a table with an entity column, no year column and no year in its path
C17_Witness ==
  /\ pc = "return"
  /\ arg.year = <<>>
  /\ arg.city # <<>>
  /\ arg.name = s_a_csv
  /\ arg.rows = 12
  /\ FindYearInfo(NormalizeColumns(LongDf.columns), LongPath) = [col |-> <<>>, const |-> NaN]
  /\ ~ret.raised
  /\ ret.records = <<>>

(***************************************************************************)
(* Bounded inputs of the cell functions: _normalize_year,                  *)
(* _infer_year_from_text, _normalize_city_code and _parse_data_value.  A   *)
(* text is a run of up to MaxTokens tokens: years on either side of the    *)
(* range, codes with and without leading zeros, separators, sentinels in   *)
(* several letter cases, boolean words; the other cells are null, numbers  *)
(* and a flag.                                                             *)
(***************************************************************************)
MaxTokens == 3

ValueTokens ==
  { <<"1", "9", "7", "9">>,
    <<"1", "9", "8", "0">>,
    <<"2", "0", "2", "2">>,
    <<"2", "0", "2", "7">>,
    <<"2", "0", "2", "8">>,
    <<"1", "9">>,
    <<"3", "5", "0", "0", "0", "0", "1">>,
    <<"3", "5", "0", "0", "0", "0">>,
    <<"0", "0", "0", "0", "0", "1">>,
    <<"S", "i", "m">>,
    <<"s">>,
    <<"N">>,
    <<"a~", "o">>,
    <<"a", "o">>,
    <<"o">>,
    <<"T", "R", "U", "E">>,
    <<"f", "a", "l", "s", "e">>,
    <<"0">>,
    <<"-">>,
    <<"-", "-">>,
    <<"/">>,
    <<".">>,
    <<",">>,
    <<" ">>,
    <<"x">>,
    <<"N", "/", "A">>,
    <<"n", "/", "a">>,
    <<"N", "A">>,
    <<"N", "/", "a">>,
    <<"n", "/", "A">>,
    <<"5">>,
    <<"%">> }

RECURSIVE Concat(_)
Concat(parts) == IF parts = <<>> THEN <<>> ELSE Head(parts) \o Concat(Tail(parts))

\* the texts: numerals stay within nine digits, the integers of the model
ValueTexts ==
  {text \in {Concat(parts) : parts \in SeqsUpTo(ValueTokens, MaxTokens)} :
     Len(SelectSeq(text, LAMBDA c : c \in Digits)) <= 9}

ValueCells ==
  {StrCell(text) : text \in ValueTexts}
    \cup {NaN, IntCell(2022), IntCell(1979), IntCell(3500001), IntCell(350000),
          IntCell(12345), FloatCell(FALSE, 3500001, <<"0">>),
          FloatCell(FALSE, 2022, <<"0">>), BoolCell(TRUE)}

ValueInit ==
  /\ arg \in ValueCells
  /\ fs = EmptyFs
  /\ pc = "call"
  /\ ret = None
  /\ docs = <<>>
  /\ docIdx = 0
  /\ tabular_files = <<>>
  /\ fileIdx = 0
  /\ long_frames = <<>>
  /\ hist = <<>>

\* one call of _normalize_year on the cell
NormalizeYearCall ==
  /\ pc = "call"
  /\ ret' = [fn |-> "_normalize_year", out |-> NormalizeYear(arg)]
  /\ pc' = "return"
  /\ UNCHANGED <<fs, arg, docs, docIdx, tabular_files, fileIdx, long_frames, hist>>

\* one call of _infer_year_from_text on the text
InferYearFromTextCall ==
  /\ pc = "call"
  /\ arg.t = "str"
  /\ ret' = [fn |-> "_infer_year_from_text", out |-> InferYearFromText(arg.v)]
  /\ pc' = "return"
  /\ UNCHANGED <<fs, arg, docs, docIdx, tabular_files, fileIdx, long_frames, hist>>

\* one call of _normalize_city_code on the cell
NormalizeCityCodeCall ==
  /\ pc = "call"
  /\ ret' = [fn |-> "_normalize_city_code", out |-> NormalizeCityCode(arg)]
  /\ pc' = "return"
  /\ UNCHANGED <<fs, arg, docs, docIdx, tabular_files, fileIdx, long_frames, hist>>

\* one call of _parse_data_value on the cell
ParseDataValueCall ==
  /\ pc = "call"
  /\ ret' = [fn |-> "_parse_data_value", out |-> ParseDataValue(arg)]
  /\ pc' = "return"
  /\ UNCHANGED <<fs, arg, docs, docIdx, tabular_files, fileIdx, long_frames, hist>>

ValueNext ==
  \/ NormalizeYearCall
  \/ InferYearFromTextCall
  \/ NormalizeCityCodeCall
  \/ ParseDataValueCall

SpecValue == ValueInit /\ [][ValueNext]_vars

(***************************************************************************)
(* C18                                                                     *)
(***************************************************************************)
\* the years in 1980..current_year + 1 written in s as a 4-digit token
InRangeTokens(s) ==
  {y \in {StrToNat(SubSeq(s, i, i + 3)) : i \in YearMatches(s)} :
     1980 <= y /\ y <= CurrentYear + 1}

\* C18: on a string holding a 4-digit year token in 1980..current_year + 1,
\* _normalize_year and _infer_year_from_text return such a year of the string,
\* whatever 4-digit tokens outside the range it holds too; they never return
\* a year outside the range.
C18_InRangeYearFound ==
  (pc = "return" /\ ret.fn \in {"_normalize_year", "_infer_year_from_text"} /\ ~IsNa(arg)) =>
    /\ InRangeTokens(CellStr(arg)) # {} =>
         /\ ret.out.t = "int"
         /\ ret.out.v \in InRangeTokens(CellStr(arg))
    /\ ~IsNa(ret.out) => 1980 <= ret.out.v /\ ret.out.v <= CurrentYear + 1

(***************************************************************************)
(* C19                                                                     *)
(***************************************************************************)
\* C19: _normalize_city_code returns Absent for a null cell; otherwise it
\* strips the characters that are no digits and, when 6 or 7 digits remain,
\* returns the integer these digits form, an integer of 6 or 7 digits; for
\* any other number of digits it returns Absent.
C19_CodeOfSixOrSevenDigits ==
  (pc = "return" /\ ret.fn = "_normalize_city_code") =>
    IF IsNa(arg) THEN IsNa(ret.out)
    ELSE LET digits == SelectSeq(CellStr(arg), LAMBDA c : c \in Digits)
         IN  IF Len(digits) \in {6, 7}
               THEN /\ ret.out = IntCell(StrToNat(digits))
                    /\ Len(NatToStr(ret.out.v)) \in {6, 7}
             ELSE IsNa(ret.out)

(***************************************************************************)
(* C20                                                                     *)
(***************************************************************************)
\* the cell is null, blank, a run of one to three dashes, or N/A in some
\* letter case
IsSentinel(value) ==
  \/ IsNa(value)
  \/ /\ value.t = "str"
     /\ LET text == Strip(value.v)
        IN  \/ text = <<>>
            \/ text \in {<<"-">>, <<"-", "-">>, <<"-", "-", "-">>}
            \/ Upper(text) = <<"N", "/", "A">>

\* C20: _parse_data_value returns Absent for every null cell, every blank
\* text, the sentinels "-", "--", "---" and the token N/A in every letter
\* case, each after trimming; none of them comes back as a text or a number.
C20_SentinelsAbsent ==
  (pc = "return" /\ ret.fn = "_parse_data_value" /\ IsSentinel(arg)) => IsNa(ret.out)

(***************************************************************************)
(* C21                                                                     *)
(***************************************************************************)
\* C21: _parse_data_value is idempotent: parsing what it returned returns the
\* same.  Native integers, floats and booleans come back unchanged, and the
\* sentinel "-" gives Absent, which stays Absent.
C21_ParseIdempotent ==
  (pc = "return" /\ ret.fn = "_parse_data_value") =>
    /\ ParseDataValue(ret.out) = ret.out
    /\ arg.t \in {"int", "float", "bool"} => ret.out = arg
    /\ arg = StrCell(<<"-">>) => IsNa(ret.out)

\* a text that fails the numeric parse after its cleaning has changed it
C21_Witness ==
  /\ pc = "return"
  /\ ret.fn = "_parse_data_value"
  /\ arg = StrCell(<<"5", ",", "x">>)
  /\ ret.out = arg
  /\ ParseDataValue(ret.out) = ret.out

(***************************************************************************)
(* C22                                                                     *)
(***************************************************************************)
\* the text without its "%" and "." characters, each "," then written "."
Cleaned(text) ==
  LET kept == SelectSeq(text, LAMBDA c : c \notin {"%", "."})
  IN  [i \in 1..Len(kept) |-> IF kept[i] = "," THEN "." ELSE kept[i]]

AffirmativeTokens == {<<"s", "i", "m">>, <<"s">>, <<"y", "e", "s">>, <<"t", "r", "u", "e">>}

NegativeTokens ==
  {<<"n", "a", "o">>, <<"n", "a~", "o">>, <<"n">>, <<"n", "o">>, <<"f", "a", "l", "s", "e">>}

MaxWords == 3

ClassWords ==
  { <<"P", "l", "a", "n", "i", "l", "h", "a">>,
    <<"R", "e", "l", "a", "t", "o'", "r", "i", "o">>,
    <<"G", "l", "o", "s", "s", "a'", "r", "i", "o">>,
    <<"R", "e", "g", "u", "l", "a", "r", "i", "d", "a", "d", "e">>,
    <<"I", "n", "d", "i", "c", "a", "d", "o", "r", "e", "s">>,
    <<"A'", "g", "u", "a", "s">>,
    <<"p", "l", "u", "v", "i", "a", "i", "s">>,
    <<"E", "s", "g", "o", "t", "o">>,
    <<"G", "e", "s", "t", "a~", "o">>,
    <<"M", "u", "n", "i", "c", "i", "p", "a", "l">>,
    <<"R", "e", "s", "i'", "d", "u", "o", "s">>,
    <<"d", "e">> }

ClassNames ==
  { <<"d", ".", "c", "s", "v">>,
    <<"r", "e", "l", "a", "t", "o", "r", "i", "o", "_", "a", "g", "u", "a", ".", "p", "d", "f">> }

\* the words, each followed by a blank
RECURSIVE JoinWords(_)
JoinWords(words) ==
  IF words = <<>> THEN <<>> ELSE Head(words) \o <<" ">> \o JoinWords(Tail(words))

ClassInit ==
  /\ arg \in [words : SeqsUpTo(ClassWords, MaxWords), name : ClassNames]
  /\ fs = EmptyFs
  /\ pc = "call"
  /\ ret = None
  /\ docs = <<>>
  /\ docIdx = 0
  /\ tabular_files = <<>>
  /\ fileIdx = 0
  /\ long_frames = <<>>
  /\ hist = <<>>

\* the link _extract_links builds for an anchor: _infer_kind and _infer_module
ClassCall ==
  /\ pc = "call"
  /\ ret' = SinisaDocumentLink(<<s_f, arg.name>>, JoinWords(arg.words))
  /\ pc' = "return"
  /\ UNCHANGED <<fs, arg, docs, docIdx, tabular_files, fileIdx, long_frames, hist>>

ClassNext == ClassCall

SpecClass == ClassInit /\ [][ClassNext]_vars

(***************************************************************************)
(* C23                                                                     *)
(***************************************************************************)
\* one of the patterns occurs in the haystack
AnyPatternIn(haystack, patterns) ==
  \E j \in 1..Len(patterns) : Contains(haystack, patterns[j])

\* C23: _infer_kind returns the first kind, in the order planilhas,
\* relatorios, glossarios, atestados, one of whose patterns occurs in the
\* normalized link text and file name, and "other" when none does;
\* _infer_module returns the first module of its table with a pattern that
\* occurs, and None when none does.
C23_FirstMatchWins ==
  pc = "return" =>
    LET haystack == NormalizeText(ret.text \o <<" ">> \o Last(ret.url))
        kinds == {i \in 1..Len(KIND_PATTERNS) : AnyPatternIn(haystack, KIND_PATTERNS[i].patterns)}
        modules == {i \in 1..Len(MODULE_PATTERNS) :
                      AnyPatternIn(haystack, MODULE_PATTERNS[i].patterns)}
    IN  /\ [i \in 1..Len(KIND_PATTERNS) |-> KIND_PATTERNS[i].kind]
             = <<s_planilhas, s_relatorios, s_glossarios, s_atestados>>
        /\ kinds = {} => ret.kind = s_other
        /\ \A i \in kinds : (\A k \in kinds : i <= k) => ret.kind = KIND_PATTERNS[i].kind
        /\ modules = {} => ret.module = NoModule
        /\ \A i \in modules :
             (\A k \in modules : i <= k) => ret.module = MODULE_PATTERNS[i].module

\* "Relatório de Planilha", relatorio_agua.pdf: both kinds match, the text
\* names no module and the file name does
C23_Witness ==
  /\ pc = "return"
  /\ arg.words = <<<<"R", "e", "l", "a", "t", "o'", "r", "i", "o">>, <<"d", "e">>, <<"P", "l", "a", "n", "i", "l", "h", "a">>>>
  /\ arg.name = <<"r", "e", "l", "a", "t", "o", "r", "i", "o", "_", "a", "g", "u", "a", ".", "p", "d", "f">>
  /\ ret.kind = s_planilhas
  /\ ret.module = s_agua

(***************************************************************************)
(* C24                                                                     *)
(***************************************************************************)
\* the source column at position j is metadata: its normalized header is in
\* the stoplist
Stoplisted(j) ==
  Lower(NormalizeIndicatorName(LongDf.columns[j])) \in NON_INDICATOR_COLS

\* C24: no record of _dataframe_to_long carries the indicator of the entity
\* column, of the year column or of a source column whose normalized header
\* is in the stoplist, also when several columns of the table have the same
\* stoplisted header.
C24_NoMetadataIndicator ==
  pc = "return" =>
    LET roles == LongRoles
        excluded == {j \in 1..Len(roles.columns) :
                       \/ roles.columns[j] \in {roles.city.col, roles.year.col}
                       \/ Stoplisted(j)}
        names == {LongPrefix \o <<"_">> \o NormalizeIndicatorName(roles.columns[j]) :
                    j \in excluded}
    IN  \A k \in 1..Len(ret.records) : ret.records[k].indicador \notin names

\* no two columns of the table have the same stoplisted header
OneColumnPerStoplistedHeader ==
  \A j, k \in 1..Len(LongDf.columns) :
    (Stoplisted(j) /\ LongDf.columns[j] = LongDf.columns[k]) => j = k

(***************************************************************************)
(* C25                                                                     *)
(***************************************************************************)
\* C25: a candidate indicator column with a value on some valid row is left
\* out as descriptive if and only if its values on the valid rows are all
\* text and more than 20 of them are distinct; with exactly 20 distinct
\* texts, or with a value that is no text among them, it is emitted.
C25_DescriptiveColumns ==
  pc = "return" =>
    LET roles == LongRoles
    IN  RolesInferred(roles) =>
          LET codes == RowCodes(roles)
              years == RowYears(roles)
              values == CellValues
              prefix == LongPrefix
              valid == {i \in 1..Len(LongDf.rows) : ~IsNa(codes[i]) /\ ~IsNa(years[i])}
              candidates == {j \in 1..Len(roles.columns) :
                               /\ roles.columns[j] \notin {roles.city.col, roles.year.col}
                               /\ Lower(roles.columns[j]) \notin NON_INDICATOR_COLS
                               /\ \E i \in valid : ~IsNa(values[j][i])}
              texts(j) == {values[j][i] : i \in {k \in valid : ~IsNa(values[j][k])}}
              emitted(j) == \E k \in 1..Len(ret.records) :
                              ret.records[k].indicador
                                = prefix \o <<"_">> \o NormalizeIndicatorName(roles.columns[j])
          IN  \A j \in candidates :
                emitted(j) <=> ~(/\ \A x \in texts(j) : x.t = "str"
                                 /\ Cardinality(texts(j)) > 20)

(***************************************************************************)
(* C26                                                                     *)
(***************************************************************************)
\* the indicator names of the table when the parts are joined with "_" after
\* the given head and default module token
IndicatorNames(head, default) ==
  LET columns == NormalizeColumns(LongDf.columns)
      tag == IF arg.module # NoModule THEN Upper(arg.module) ELSE default
  IN  {head \o tag \o <<"_">> \o NormalizeIndicatorName(Stem(arg.name)) \o <<"_">>
         \o NormalizeIndicatorName(columns[j]) : j \in 1..Len(columns)}

\* C26 as stated: the indicator of every record is the module tag, or
\* "GENERAL" for a document without module, the normalized file stem and the
\* normalized column name, in upper case and joined with "_".
C26_IndicatorName ==
  pc = "return" =>
    \A k \in 1..Len(ret.records) :
      /\ ret.records[k].indicador \in IndicatorNames(<<>>, <<"G", "E", "N", "E", "R", "A", "L">>)
      /\ Upper(ret.records[k].indicador) = ret.records[k].indicador

\* C26 as the code has it: the indicator of every record is "SINISA", the
\* module tag, or "GERAL" for a document without module, the normalized file
\* stem and the normalized column name, in upper case and joined with "_"; it
\* is a function of the module, the file stem and the column name.
C26_IndicatorNameWithSource ==
  pc = "return" =>
    \A k \in 1..Len(ret.records) :
      /\ ret.records[k].indicador
           \in IndicatorNames(<<"S", "I", "N", "I", "S", "A", "_">>, <<"G", "E", "R", "A", "L">>)
      /\ Upper(ret.records[k].indicador) = ret.records[k].indicador

\* a record of a document without module
C26_Witness ==
  /\ pc = "return"
  /\ arg.module = NoModule
  /\ arg.name = s_a_2023_csv
  /\ \E k \in 1..Len(ret.records) :
       ret.records[k].indicador
         = <<"S", "I", "N", "I", "S", "A", "_", "G", "E", "R", "A", "L", "_",
             "A", "_", "2", "0", "2", "3", "_", "A", "_", "1">>

(***************************************************************************)
(* C27                                                                     *)
(***************************************************************************)
\* C27: the column names _normalize_columns gives a table are pairwise
\* distinct, whatever the headers: headers that collide after normalization,
\* and headers that look like a suffixed name already.
C27_DistinctColumnNames ==
  pc = "return" =>
    LET new_cols == NormalizeColumns(LongDf.columns)
    IN  Cardinality({new_cols[j] : j \in 1..Len(new_cols)}) = Len(new_cols)

(***************************************************************************)
(* Bounded inputs of _read_tabular_file: file names with the extensions    *)
(* the loader knows, in either letter case, and others; bytes that are a   *)
(* workbook, a delimited file with any outcome under each encoding, or     *)
(* neither.                                                                *)
(***************************************************************************)
ReadNames == {s_a_csv, s_r_CSV, s_z_xlsx, <<"a", ".", "x", "l", "s">>, <<"a", ".", "o", "d", "s">>, s_n_txt, s_rel_pdf, s_a}

ReadTables ==
  { Table(<< <<"a">> >>, << <<IntCell(1)>> >>),
    Table(<< <<"a~">> >>, << <<IntCell(1)>> >>) }

ReadOutcomes ==
  {[ok |-> FALSE, table |-> Table(<<>>, <<>>)]} \cup {[ok |-> TRUE, table |-> tb] : tb \in ReadTables}

ReadContents ==
  {CsvFile(reads) : reads \in [1..Len(ENCODINGS) -> ReadOutcomes]}
    \cup {TableFile("excel", tb) : tb \in ReadTables}
    \cup {Corrupt, Blob(1)}

ReadInit ==
  /\ arg \in [name : ReadNames, content : ReadContents]
  /\ fs = EmptyFs
  /\ pc = "call"
  /\ ret = None
  /\ docs = <<>>
  /\ docIdx = 0
  /\ tabular_files = <<>>
  /\ fileIdx = 0
  /\ long_frames = <<>>
  /\ hist = <<>>

\* one call of _read_tabular_file
ReadCall ==
  /\ pc = "call"
  /\ ret' = ReadTabularFile(Append(RawDir, arg.name), arg.content)
  /\ pc' = "return"
  /\ UNCHANGED <<fs, arg, docs, docIdx, tabular_files, fileIdx, long_frames, hist>>

ReadNext == ReadCall

SpecRead == ReadInit /\ [][ReadNext]_vars

(***************************************************************************)
(* C28                                                                     *)
(***************************************************************************)
\* the extension of the file name, in lower case
ReadSuffix == Lower(Suffix(arg.name))

\* C28: _read_tabular_file returns "no table" for an extension it does not
\* know, for a spreadsheet that fails to read and for a delimited file that
\* fails under every encoding; for a delimited file it returns the table of
\* the first of utf-8-sig, latin-1, cp1252 that parses and tries no later one.
C28_ReadOrNoTable ==
  pc = "return" =>
    LET parsed == {k \in 1..3 : arg.content.kind = "csv" /\ arg.content.reads[k].ok}
    IN  /\ ENCODINGS = <<"utf-8-sig", "latin-1", "cp1252">>
        /\ ReadSuffix \notin {s_csv, s_xlsx, s_xls, s_ods} => ~ret.ok /\ ret.tried = 0
        /\ (ReadSuffix \in {s_xlsx, s_xls, s_ods} /\ arg.content.kind # "table") => ~ret.ok
        /\ (ReadSuffix = s_csv /\ parsed = {}) => ~ret.ok
        /\ \A k \in parsed :
             (ReadSuffix = s_csv /\ \A j \in parsed : k <= j) =>
               /\ ret.ok
               /\ ret.df = arg.content.reads[k].table
               /\ ret.tried = k

\* bytes that are no utf-8 and parse under latin-1 and cp1252, to different
\* tables
C28_Witness ==
  /\ pc = "return"
  /\ arg.name = s_r_CSV
  /\ arg.content.kind = "csv"
  /\ ~arg.content.reads[1].ok
  /\ arg.content.reads[2].ok
  /\ arg.content.reads[3].ok
  /\ arg.content.reads[2].table # arg.content.reads[3].table
  /\ ret.ok
  /\ ret.df = arg.content.reads[2].table

(***************************************************************************)
(* C29                                                                     *)
(***************************************************************************)
\* C29: when _download_document returns no path, no file is at the target
\* path of the document in raw/, so that nothing of a download that failed
\* can be taken for a downloaded file later.
C29_NoFileAfterFailure ==
  (pc = "downloaded" /\ ~ret.ok) => ~Exists(fs, ZipPath)

\* the same for the bytes the failed call itself has written
NoPartialAfterFailure ==
  (pc = "downloaded" /\ ~ret.ok /\ IsFile(fs, ZipPath)) => fs.files[ZipPath] # Partial

(***************************************************************************)
(* C30                                                                     *)
(***************************************************************************)
\* C30: the datasets extract_database returns are in strictly ascending
\* order of their years, no two of them for one year, in whatever order the
\* documents and files have yielded the records.
C30_AscendingYears ==
  pc = "done" =>
    \A k \in 1..(Len(ret) - 1) : ret[k].data_year < ret[k + 1].data_year

\* the first record assembled is of a later year than the last one
C30_Witness ==
  /\ pc = "done"
  /\ Len(ret) >= 2
  /\ Len(long_frames) = 2
  /\ Assembled[1].ano > Assembled[Len(Assembled)].ano
  /\ ret[1].data_year = Assembled[Len(Assembled)].ano

=============================================================================
